---- MODULE Spec2Model ----
(***************************************************************************)
(* Email ticket booking system: the thread-state reconciliation engine of  *)
(* main.py (sync_mail_to_sheet), its Auto-Closer                           *)
(* (check_and_close_stale_tickets), and the Gmail / Sheets helpers it      *)
(* calls (gmail_handler.py, sheets_handler.py).                            *)
(*                                                                         *)
(* The mailbox (threads, labels, trash) and the spreadsheet ("Email log"   *)
(* rows, the Ticket_Config counter cell) are external state; the watermark *)
(* file thread_state.txt is durable local state; the module-level globals  *)
(* of main.py are process memory, lost on restart.  Every mailbox or store *)
(* call may raise: the exception leaves sync_mail_to_sheet, the locals of  *)
(* the cycle are lost, the globals and everything already written stay.    *)
(***************************************************************************)
EXTENDS Integers, Sequences, FiniteSets, TLC

VARIABLES
    \* ---- mailbox (Gmail) ----
    mailbox,            \* thread id -> list of messages, in arrival order
    labels,             \* thread id -> set of label names on the thread
    trashed,            \* set of thread ids moved to trash
    \* ---- spreadsheet ----
    rows,               \* "Email log" data rows (sheet row 2 is rows[1])
    counterCell,        \* Ticket_Config!B1
    sheetThreadState,   \* Thread_State sheet (backup of the watermark map)
    sheetLastSync,      \* the persisted sync cursor (0: none): Sync_State!B1; last_sync.txt of new1.py
    \* ---- local file ----
    fileState,          \* thread_state.txt: thread id -> watermark
    \* ---- wall clock ----
    now,                \* epoch seconds
    \* ---- configuration (module constant of main.py) ----
    AUTO_CLOSE_ACTION,
    \* ---- globals of main.py ----
    sync_counter,
    cached_thread_map,  \* [isNone, map]
    last_ticket_map_refresh,
    known_senders,
    known_senders_loaded,
    ADMIN_EMAILS,
    \* ---- locals of one sync_mail_to_sheet call ----
    pc,                 \* "idle" | "loop"
    fetched,            \* the listing as fetch_all_threads returned it, until the
                        \* loop has examined its first thread
    threads,            \* the de-duplicated listing
    idx,                \* position of the next thread to process
    thread_state,       \* the cycle's copy of the watermark map
    \* ---- observation (history) ----
    issued,             \* numbers returned by get_next_ticket_id, in order
    appended,           \* number of rows ever appended by add_new_ticket
    wasted,             \* ticket numbers issued in a step that then raised before the append
    ticketed,           \* addresses for which a ticket row has been appended
    prevDone,           \* thread -> watermark set by the last cycle, if it completed
    interrupted,        \* thread -> timestamp of the message for which an id was
                        \* allocated by the step that raised and ended the last
                        \* cycle, while the next thing to happen is the retry
    last_sync,          \* lower bound of the most recent mailbox query (0: no query yet)
    lastOp,             \* the path the last step took through the loop body or the cycle end
    \* ---- global of app.py ----
    sync_status         \* [last_sync, last_error, sync_count]

mailVars  == <<mailbox, labels, trashed>>
storeVars == <<rows, counterCell, sheetThreadState, sheetLastSync>>
globVars  == <<sync_counter, cached_thread_map, last_ticket_map_refresh,
               known_senders, known_senders_loaded, ADMIN_EMAILS>>
cycleVars == <<pc, fetched, threads, idx, thread_state>>
histVars  == <<issued, appended, wasted, ticketed, prevDone, interrupted,
               last_sync, lastOp>>
vars == <<mailVars, storeVars, fileState, now, AUTO_CLOSE_ACTION,
          globVars, cycleVars, histVars, sync_status>>

-----------------------------------------------------------------------------
(* Bounds of the model *)

NThreads == 2
MaxMsgs == 3
MaxDate == 4
MaxList == 2
MaxSync == 2
MaxRows == 3
MaxCounter == 3
MaxTicks == 4

(* Program constants *)

AUTO_CLOSE_HOURS == 6
TICKET_MAP_REFRESH_INTERVAL == 20
SHEET_BACKUP_INTERVAL == 50
STALE_CHECK_INTERVAL == 20
MS_PER_SECOND == 1000
SECONDS_PER_HOUR == 3600
TICKET_ID_WIDTH == 6
LOOKBACK_SECONDS == 10
NEWER_THAN_DAYS == 7
SYNC_INTERVAL_SECONDS == 5

(* Granularity of the model's time: message dates are multiples of        *)
(* DATE_STEP_MS milliseconds, so that two dates can fall in one second;   *)
(* the wall clock reads CLOCK_START seconds.                               *)
DATE_STEP_MS == 500
CLOCK_START == 864000

Threads == 1..NThreads
Dates == {k * DATE_STEP_MS : k \in 2..MaxDate}

-----------------------------------------------------------------------------
(* Generic helpers: Python dict get / item assignment *)

EmptyMap == [x \in {} |-> 0]

Get(f, k, d) == IF k \in DOMAIN f THEN f[k] ELSE d

Put(f, k, v) == [x \in (DOMAIN f) \cup {k} |-> IF x = k THEN v ELSE f[x]]

Without(f, k) == [x \in (DOMAIN f) \ {k} |-> f[x]]

BoundedSeq(S, n) == UNION {[1..k -> S] : k \in 0..n}

-----------------------------------------------------------------------------
(* Identity resolver *)

\* str.lower() on the addresses that occur in the model
LowerTable ==
    ("Carol@Example.com" :> "carol@example.com") @@ ("Boss@He5.in" :> "boss@he5.in")

Lower(s) == IF s \in DOMAIN LowerTable THEN LowerTable[s] ELSE s

\* A From header value: "name <email>" when name is non-empty, else the
\* bare "email".
HCarol   == [name |-> "Carol",   email |-> "Carol@Example.com"]
HSupport == [name |-> "Support", email |-> "support-ticketana@he5.in"]
HSelf    == [name |-> "",        email |-> "desk@he5.in"]

FromHeaders == {HCarol, HSupport, HSelf}

\* The header text: "name <email>" or the bare address
RawValue(value) ==
    IF value.name # "" THEN value.name \o " <" \o value.email \o ">"
    ELSE value.email

\* gmail_handler.extract_email: re.search(r"<(.+?)>") - the text between
\* "<" and ">" lower-cased when the value has that form, else the whole
\* value lower-cased.
extract_email(value) ==
    IF value.name # "" THEN Lower(value.email) ELSE Lower(RawValue(value))

\* gmail_handler.get_my_email: the profile's address, lower-cased
get_my_email == Lower("desk@he5.in")

\* main.ADMIN_EMAILS as shipped
InitialAdminEmails == <<"support-ticketana@he5.in">>

InList(x, list) == \E i \in 1..Len(list) : list[i] = x

\* Faulty variant of is_admin_email: only the first entry of the list counts
is_admin_emailFirstOnly(email, admins) ==
    Len(admins) > 0 /\ Lower(email) = admins[1]

\* main.is_admin_email
is_admin_email(email, admins) == InList(Lower(email), admins)

-----------------------------------------------------------------------------
(* Thread classifier *)

Message(date, from) ==
    [internalDate |-> date,
     headers |-> ("From" :> from) @@ ("Subject" :> "Help")]

\* gmail_handler.get_last_message: max(messages, key=internalDate); Python's
\* max returns the first maximal element.  0 stands for (None, None).
get_last_message(msgs) ==
    IF Len(msgs) = 0 THEN 0
    ELSE CHOOSE i \in 1..Len(msgs) :
            /\ \A j \in 1..Len(msgs) : msgs[j].internalDate <= msgs[i].internalDate
            /\ \A j \in 1..(i - 1) : msgs[j].internalDate < msgs[i].internalDate

LastMsg(msgs) == msgs[get_last_message(msgs)]

\* main.py:318  ts = int(msg["internalDate"]) // 1000
TsOf(msg) == msg.internalDate \div MS_PER_SECOND

\* main.py:325-326
FromOf(msg) == extract_email(msg.headers["From"])
SubjectOf(msg) == Get(msg.headers, "Subject", "No Subject")

-----------------------------------------------------------------------------
(* Ticket store helpers (sheets_handler.py) *)

StAdmin == "Awaiting admin reply"
StCust == "Awaiting customer reply"
StClosed == "Closed - No customer response"
LblAdmin == "Awaiting_Admin_Reply"
LblCust == "Awaiting_Customer_Reply"

RECURSIVE Zeros(_)
Zeros(n) == IF n <= 0 THEN "" ELSE "0" \o Zeros(n - 1)

\* f"TCK-{next_ticket:06d}"
FormatTicketId(n) ==
    "TCK-" \o Zeros(TICKET_ID_WIDTH - Len(ToString(n))) \o ToString(n)

\* sheets_handler.create_ticket_row; clock is datetime.now()
create_ticket_row(ticket_id, thread_id, from_email, subject, status, new_sender, clock) ==
    [ticket_id  |-> ticket_id,
     thread_id  |-> thread_id,
     timestamp  |-> clock,
     from_email |-> from_email,
     subject    |-> subject,
     status     |-> status,
     new_sender |-> IF new_sender THEN "Yes" ELSE "No",
     link       |-> "=HYPERLINK(\"https://mail.google.com/mail/u/0/#inbox/"
                        \o ToString(thread_id) \o "\",\"Open Mail\")"]

\* What get_all_values / row_values return for a row: the displayed values;
\* the HYPERLINK formula shows as its link text.
Displayed(row) == [row EXCEPT !.link = "Open Mail"]

\* sheets_handler.get_all_tickets: thread id -> sheet row number; a later
\* row with the same thread id overwrites an earlier one.
RECURSIVE TicketMapFrom(_, _, _)
TicketMapFrom(rs, i, acc) ==
    IF i > Len(rs) THEN acc
    ELSE TicketMapFrom(rs, i + 1, Put(acc, rs[i].thread_id, i + 1))

get_all_tickets(rs) == TicketMapFrom(rs, 1, EmptyMap)

\* main.load_known_senders: column D of every row, lower-cased
load_known_senders(rs) == {Lower(rs[i].from_email) : i \in 1..Len(rs)}

\* main.is_new_sender_cached
is_new_sender_cached(from_email, known) == Lower(from_email) \notin known

\* main.py:283-295: order-preserving removal of repeated thread ids
RECURSIVE DedupeFrom(_, _, _)
DedupeFrom(listing, i, acc) ==
    IF i > Len(listing) THEN acc
    ELSE DedupeFrom(listing, i + 1,
            IF InList(listing[i], acc) THEN acc ELSE Append(acc, listing[i]))

\* Faulty variant of Dedupe: repeated thread ids are kept
DedupeKeepsAll(listing) == listing

Dedupe(listing) == DedupeFrom(listing, 1, <<>>)

\* main.py:377-381
StatusFor(from_email, admins) ==
    IF is_admin_email(from_email, admins) THEN StCust ELSE StAdmin

\* main.py:383-387 with gmail_handler.update_thread_labels
LabelsAfter(old, status) ==
    IF status = StAdmin THEN (old \cup {LblAdmin}) \ {LblCust}
    ELSE (old \cup {LblCust}) \ {LblAdmin}

-----------------------------------------------------------------------------
(* Auto-Closer: main.check_and_close_stale_tickets *)

\* worksheet.delete_rows(n): the rows below move up by one
DeleteRow(live, n) ==
    IF n - 1 \in 1..Len(live)
    THEN [k \in 1..(Len(live) - 1) |-> IF k < n - 1 THEN live[k] ELSE live[k + 1]]
    ELSE live

\* worksheet.update(f"A{n}:H{n}", [row])
WriteRow(live, n, row) ==
    IF n - 1 \in 1..Len(live) THEN [live EXCEPT ![n - 1] = row] ELSE live

\* Faulty variant of IsStale: a row exactly AUTO_CLOSE_HOURS old is not stale
IsStaleStrict(row, clock) ==
    /\ row.status = StCust
    /\ clock - row.timestamp > AUTO_CLOSE_HOURS * SECONDS_PER_HOUR

\* main.py:167-182: the row is awaiting the customer and
\* (current_time - ticket_timestamp) / 3600 >= AUTO_CLOSE_HOURS
IsStale(row, clock) ==
    /\ row.status = StCust
    /\ clock - row.timestamp >= AUTO_CLOSE_HOURS * SECONDS_PER_HOUR

\* main.py:185 / main.py:198-199: what the pass does to the sheet for the
\* stale row it read as sheet row n
CloserEffect(action, live, n, row) ==
    IF action = "delete" THEN DeleteRow(live, n)
    ELSE WriteRow(live, n, [row EXCEPT !.status = StClosed])

\* The loop of main.py:158-201 over the snapshot all_rows, from snapshot
\* index i on.  failAt: the snapshot index whose store call raises (0: none);
\* noTrash: threads whose trash call raises (caught at main.py:192).
RECURSIVE CloserFrom(_, _, _, _, _, _, _, _)
CloserFrom(all_rows, i, live, trash, action, clock, failAt, noTrash) ==
    IF i > Len(all_rows) THEN [rows |-> live, trashed |-> trash, failed |-> FALSE]
    ELSE IF ~IsStale(all_rows[i], clock)
    THEN CloserFrom(all_rows, i + 1, live, trash, action, clock, failAt, noTrash)
    ELSE IF failAt = i THEN [rows |-> live, trashed |-> trash, failed |-> TRUE]
    ELSE CloserFrom(all_rows, i + 1,
            CloserEffect(action, live, i + 1, all_rows[i]),
            IF action = "delete" /\ all_rows[i].thread_id \notin noTrash
            THEN trash \cup {all_rows[i].thread_id} ELSE trash,
            action, clock, failAt, noTrash)

check_and_close_stale_tickets(rs, trash, action, clock, failAt, noTrash) ==
    CloserFrom([k \in 1..Len(rs) |-> Displayed(rs[k])], 1, rs, trash,
               action, clock, failAt, noTrash)

-----------------------------------------------------------------------------
(* Initial state: empty mailbox and sheet, process just started *)

NoCache == [isNone |-> TRUE, map |-> EmptyMap]

\* app.py:23-27: None is 0 for last_sync and "None" for last_error
InitialStatus == [last_sync |-> 0, last_error |-> "None", sync_count |-> 0]

ProcessInit ==
    /\ sync_counter = 0
    /\ cached_thread_map = NoCache
    /\ last_ticket_map_refresh = 0
    /\ known_senders = {}
    /\ known_senders_loaded = FALSE
    /\ ADMIN_EMAILS = InitialAdminEmails
    /\ pc = "idle"
    /\ fetched = <<>>
    /\ threads = <<>>
    /\ idx = 1
    /\ thread_state = EmptyMap

Init ==
    /\ mailbox = [t \in Threads |-> <<>>]
    /\ labels = [t \in Threads |-> {}]
    /\ trashed = {}
    /\ rows = <<>>
    /\ counterCell = 0
    /\ sheetThreadState = EmptyMap
    /\ sheetLastSync = 0
    /\ fileState = EmptyMap
    /\ now = CLOCK_START
    /\ AUTO_CLOSE_ACTION = "close"
    /\ ProcessInit
    /\ issued = <<>>
    /\ appended = 0
    /\ sync_status = InitialStatus
    /\ wasted = 0
    /\ ticketed = {}
    /\ prevDone = EmptyMap
    /\ interrupted = EmptyMap
    /\ last_sync = 0
    /\ lastOp = "none"

-----------------------------------------------------------------------------
(* Environment *)

RECURSIVE SumLen(_, _)
SumLen(mb, S) ==
    IF S = {} THEN 0
    ELSE LET t == CHOOSE x \in S : TRUE IN Len(mb[t]) + SumLen(mb, S \ {t})

AllDates == UNION {{mailbox[t][i].internalDate : i \in 1..Len(mailbox[t])} : t \in Threads}

\* A message is delivered into thread t; the provider stamps it with its
\* receive time, later than that of every message delivered before.
\* A cycle reads a thread only when it reaches it (main.py:311), so a
\* delivery during a cycle is seen exactly like one before or after it:
\* deliveries are taken between cycles.
MessageArrives(t, from, date) ==
    /\ pc = "idle"
    /\ SumLen(mailbox, Threads) < MaxMsgs
    \* thread ids are handed out in the order the conversations start
    /\ \A u \in Threads : u < t => mailbox[u] # <<>>
    /\ \A d \in AllDates : d < date
    \* only the distances between dates matter: the first one is the earliest
    /\ AllDates = {} => \A d \in Dates : date <= d
    /\ mailbox' = [mailbox EXCEPT ![t] = Append(@, Message(date, from))]
    /\ lastOp' = "none"
    /\ interrupted' = EmptyMap
    /\ UNCHANGED <<labels, trashed, storeVars, fileState, now, AUTO_CLOSE_ACTION, sync_status,
                   globVars, cycleVars, issued, appended, wasted, ticketed, prevDone, last_sync>>

\* The process is stopped and started again: module globals are
\* re-initialised (main.py:55-62, 45-52), files and sheets stay.  Stopping
\* the process inside a cycle is an aborted cycle followed by this step.
Restart ==
    /\ pc = "idle"
    /\ sync_counter' = 0
    /\ cached_thread_map' = NoCache
    /\ last_ticket_map_refresh' = 0
    /\ known_senders' = {}
    /\ known_senders_loaded' = FALSE
    /\ ADMIN_EMAILS' = InitialAdminEmails
    /\ pc' = "idle"
    /\ fetched' = <<>>
    /\ threads' = <<>>
    /\ idx' = 1
    /\ thread_state' = EmptyMap
    /\ prevDone' = EmptyMap
    /\ lastOp' = "none"
    /\ interrupted' = EmptyMap
    /\ sync_status' = InitialStatus
    /\ UNCHANGED <<mailVars, storeVars, fileState, now, AUTO_CLOSE_ACTION,
                   issued, appended, wasted, ticketed, last_sync>>

-----------------------------------------------------------------------------
(* One call of sync_mail_to_sheet, in steps *)

\* Faulty variant of AbortCycle: the loop goes on with the next thread
AbortCycleContinues ==
    /\ pc' = "loop"
    /\ fetched' = <<>>
    /\ threads' = threads
    /\ idx' = idx + 1
    /\ thread_state' = thread_state
    /\ prevDone' = EmptyMap
    /\ lastOp' = "none"

\* An exception leaves sync_mail_to_sheet (caught by app.scheduled_sync):
\* the locals are gone.
AbortCycle ==
    /\ pc' = "idle"
    /\ fetched' = <<>>
    /\ threads' = <<>>
    /\ idx' = 1
    /\ thread_state' = EmptyMap
    /\ prevDone' = EmptyMap
    /\ lastOp' = "none"

\* Faulty variant of WithMyEmail: the mailbox's own address is not added
WithMyEmailOmitted(admins) == admins

\* Faulty variant of WithMyEmail: the address is appended in every cycle
WithMyEmailAlways(admins) == Append(admins, get_my_email)

\* main.py:221-224
WithMyEmail(admins) ==
    IF InList(get_my_email, admins) THEN admins ELSE Append(admins, get_my_email)

\* main.py:251
NeedsRefresh(cache, counter, last) ==
    cache.isNone \/ (counter - last) >= TICKET_MAP_REFRESH_INTERVAL

\* Faulty variant of load_thread_state_from_file: the file is not read
load_thread_state_from_fileSkipped(file) == EmptyMap

\* main.load_thread_state_from_file: the "tid|ts" lines written by
\* save_thread_state_to_file, read back as a dict tid -> int(ts); no file
\* gives the empty dict
load_thread_state_from_file(file) == [t \in DOMAIN file |-> file[t]]

\* sheets_handler.get_last_sync_timestamp: int(B1), or None (0 here) when
\* the cell is empty or the read raises
get_last_sync_timestamp(cell) == cell

\* main.py:278: the mailbox query is "after:<last_sync>" when last_sync is
\* truthy, else "newer_than:7d"; the earliest time the query admits
QueryLowerBound(cursor, clock) ==
    IF cursor # 0 THEN cursor
    ELSE clock - NEWER_THAN_DAYS * 24 * SECONDS_PER_HOUR

\* The cycles the model runs: the first MaxSync cycles of a process and, for
\* a process that has run longer, the one after an Auto-Closer pass and
\* those around the sheet backup
BackupWindowStart == SHEET_BACKUP_INTERVAL - 2

CycleAllowed(counter) ==
    \/ counter < MaxSync
    \/ counter = STALE_CHECK_INTERVAL
    \/ counter >= BackupWindowStart /\ counter <= BackupWindowStart + MaxSync

StartFailures == {"none", "profile", "connect", "refresh", "senders", "fetch"}

\* main.py:217-296.  listing is what fetch_all_threads returns; fail names
\* the call that raises.
CycleStartStep(listing, fail) ==
    LET counter == sync_counter + 1
        refresh == NeedsRefresh(cached_thread_map, counter, last_ticket_map_refresh)
    IN
    /\ pc = "idle"
    /\ CycleAllowed(sync_counter)
    /\ fail = "refresh" => refresh
    /\ fail = "senders" => ~known_senders_loaded
    /\ fail # "none" => listing = <<>>
    /\ ADMIN_EMAILS' = IF fail = "profile" THEN ADMIN_EMAILS ELSE WithMyEmail(ADMIN_EMAILS)
    /\ sync_counter' = IF fail \in {"profile", "connect"} THEN sync_counter ELSE counter
    /\ IF fail \notin {"profile", "connect", "refresh"} /\ refresh
       THEN /\ cached_thread_map' = [isNone |-> FALSE, map |-> get_all_tickets(rows)]
            /\ last_ticket_map_refresh' = counter
       ELSE UNCHANGED <<cached_thread_map, last_ticket_map_refresh>>
    /\ IF fail \in {"none", "fetch"} /\ ~known_senders_loaded
       THEN /\ known_senders' = load_known_senders(rows)
            /\ known_senders_loaded' = TRUE
       ELSE UNCHANGED <<known_senders, known_senders_loaded>>
    /\ IF fail = "none"
       THEN /\ pc' = "loop"
            /\ fetched' = listing
            /\ threads' = Dedupe(listing)
            /\ idx' = 1
            /\ thread_state' = load_thread_state_from_file(fileState)
            /\ lastOp' = "start"
            /\ UNCHANGED prevDone
       ELSE AbortCycle
    /\ last_sync' = IF fail \in {"none", "fetch"}
                    THEN QueryLowerBound(
                            IF counter = 1 THEN get_last_sync_timestamp(sheetLastSync)
                            ELSE now - LOOKBACK_SECONDS, now)
                    ELSE last_sync
    /\ interrupted' = IF fail = "none" THEN interrupted ELSE EmptyMap
    /\ UNCHANGED <<mailVars, storeVars, fileState, now, AUTO_CLOSE_ACTION,
                   issued, appended, wasted, ticketed>>

\* The thread being examined by the loop of main.py:299
Processing == pc = "loop" /\ idx <= Len(threads)
CurThread == threads[idx]
HasMessages == get_last_message(mailbox[CurThread]) # 0
CurMsg == LastMsg(mailbox[CurThread])
CurTs == TsOf(CurMsg)
CurFrom == FromOf(CurMsg)
\* main.py:333
IsNewTicket == CurThread \notin DOMAIN cached_thread_map.map

\* Faulty variant of AlreadyProcessed: an equal timestamp passes the gate
AlreadyProcessedStrict == CurTs < Get(thread_state, CurThread, 0)

\* main.py:321
AlreadyProcessed == CurTs <= Get(thread_state, CurThread, 0)

\* Faulty variant of NextThread: the loop stays at the thread
NextThreadStays(op) ==
    /\ idx' = idx
    /\ lastOp' = op
    /\ interrupted' = Without(interrupted, CurThread)
    /\ fetched' = <<>>
    /\ UNCHANGED <<pc, threads, prevDone>>

\* "continue", or the end of the loop body
NextThread(op) ==
    /\ idx' = idx + 1
    /\ lastOp' = op
    /\ interrupted' = Without(interrupted, CurThread)
    /\ fetched' = <<>>
    /\ UNCHANGED <<pc, threads, prevDone>>

\* main.py:311: get_thread_details raises
FetchFailsStep ==
    /\ Processing
    /\ AbortCycle
    /\ interrupted' = EmptyMap
    /\ UNCHANGED <<mailVars, storeVars, fileState, now, AUTO_CLOSE_ACTION,
                   globVars, issued, appended, wasted, ticketed, last_sync>>

\* main.py:314-316
SkipNoMessages ==
    /\ Processing
    /\ ~HasMessages
    /\ NextThread("skip_nomsg")
    /\ UNCHANGED <<mailVars, storeVars, fileState, now, AUTO_CLOSE_ACTION, sync_status,
                   globVars, thread_state, issued, appended, wasted, ticketed, last_sync>>

\* main.py:318-323 (and the same test again at main.py:340)
SkipProcessed ==
    /\ Processing
    /\ HasMessages
    /\ AlreadyProcessed
    /\ NextThread("skip_processed")
    /\ UNCHANGED <<mailVars, storeVars, fileState, now, AUTO_CLOSE_ACTION, sync_status,
                   globVars, thread_state, issued, appended, wasted, ticketed, last_sync>>

\* main.py:344-348
SkipAdminInitiated ==
    /\ Processing
    /\ HasMessages
    /\ ~AlreadyProcessed
    /\ IsNewTicket
    /\ is_admin_email(CurFrom, ADMIN_EMAILS)
    /\ thread_state' = Put(thread_state, CurThread, CurTs)
    /\ NextThread("skip_admin")
    /\ UNCHANGED <<mailVars, storeVars, fileState, now, AUTO_CLOSE_ACTION, sync_status,
                   globVars, issued, appended, wasted, ticketed, last_sync>>

\* main.py:399-400 for an existing ticket: new_sender keeps its default False
UpdateRowData(ticket_id, tid, msg, admins, clock) ==
    create_ticket_row(ticket_id, tid, FromOf(msg), SubjectOf(msg),
                      StatusFor(FromOf(msg), admins), FALSE, clock)

UpdateFailures == {"none", "row_values", "index", "labels", "update"}

\* main.py:350-354, 377-405, 417: the thread is in the cached map
UpdateExistingStep(fail) ==
    LET row_num == cached_thread_map.map[CurThread]
        empty_row == row_num - 1 > Len(rows)
        ticket_id == Displayed(rows[row_num - 1]).ticket_id
        status == StatusFor(CurFrom, ADMIN_EMAILS)
    IN
    /\ Processing
    /\ HasMessages
    /\ ~AlreadyProcessed
    /\ ~IsNewTicket
    \* row_values of an empty row is [], and ticket_data[0] raises IndexError
    /\ (fail = "index") <=> (empty_row /\ fail # "row_values")
    /\ labels' = IF fail \in {"none", "update"}
                 THEN [labels EXCEPT ![CurThread] = LabelsAfter(@, status)]
                 ELSE labels
    /\ rows' = IF fail = "none"
               THEN WriteRow(rows, row_num,
                        UpdateRowData(ticket_id, CurThread, CurMsg, ADMIN_EMAILS, now))
               ELSE rows
    /\ IF fail = "none"
       THEN /\ thread_state' = Put(thread_state, CurThread, CurTs)
            /\ NextThread("update")
       ELSE AbortCycle /\ interrupted' = EmptyMap
    /\ UNCHANGED <<mailbox, trashed, counterCell, sheetThreadState, sheetLastSync,
                   fileState, now, AUTO_CLOSE_ACTION, globVars,
                   issued, appended, wasted, ticketed, last_sync>>

\* main.py:360: the map re-read from the sheet just before an id is allocated
RecheckMap(rs) == get_all_tickets(rs)

\* Faulty variant of RecheckSkip: the cached map is not replaced
RecheckSkipKeepsCache ==
    /\ Processing
    /\ HasMessages
    /\ CurTs > Get(thread_state, CurThread, 0)
    /\ IsNewTicket
    /\ ~is_admin_email(CurFrom, ADMIN_EMAILS)
    /\ CurThread \in DOMAIN get_all_tickets(rows)
    /\ NextThread("recheck_skip")
    /\ UNCHANGED <<mailVars, storeVars, fileState, now, AUTO_CLOSE_ACTION, sync_status,
                   globVars, thread_state,
                   issued, appended, wasted, ticketed, last_sync>>

\* main.py:358-365: the re-read map already holds the thread
RecheckSkip ==
    /\ Processing
    /\ HasMessages
    /\ ~AlreadyProcessed
    /\ IsNewTicket
    /\ ~is_admin_email(CurFrom, ADMIN_EMAILS)
    /\ CurThread \in DOMAIN RecheckMap(rows)
    /\ cached_thread_map' = [isNone |-> FALSE, map |-> RecheckMap(rows)]
    /\ NextThread("recheck_skip")
    /\ UNCHANGED <<mailVars, storeVars, fileState, now, AUTO_CLOSE_ACTION, sync_status,
                   sync_counter, last_ticket_map_refresh, known_senders,
                   known_senders_loaded, ADMIN_EMAILS, thread_state,
                   issued, appended, wasted, ticketed, last_sync>>

\* Faulty variant of NextTicketNumber: the cell's value is returned as it is
\* once it is set
NextTicketNumberSame(cell) == IF cell = 0 THEN 1 ELSE cell

\* sheets_handler.get_next_ticket_id: int(B1 or 0) + 1
NextTicketNumber(cell) == cell + 1

\* main.py:389-400 for a new ticket
NewRowData(number, tid, msg, admins, known, clock) ==
    create_ticket_row(FormatTicketId(number), tid, FromOf(msg), SubjectOf(msg),
                      StatusFor(FromOf(msg), admins),
                      is_new_sender_cached(FromOf(msg), known), clock)

\* main.py:393-395
KnownAfter(known, from_email) ==
    IF is_new_sender_cached(from_email, known)
    THEN known \cup {Lower(from_email)} ELSE known

\* Faulty variant of RefreshedMap: the map is not re-read after the append
RefreshedMapKept(rs) == cached_thread_map.map

\* main.py:411-413: the map re-read from the sheet right after the append
RefreshedMap(rs) == get_all_tickets(rs)

CreateFailures ==
    {"none", "recheck", "counter_read", "counter_write", "labels", "append", "refresh"}

\* main.py:355-375, 377-400, 406-417: the thread is not in the cached map
\* and its last sender is not an admin
CreateTicketStep(fail) ==
    LET number == NextTicketNumber(counterCell)
        status == StatusFor(CurFrom, ADMIN_EMAILS)
        got_id == fail \in {"none", "labels", "append", "refresh"}
        labelled == fail \in {"none", "append", "refresh"}
        added == fail \in {"none", "refresh"}
        new_rows == Append(rows, NewRowData(number, CurThread, CurMsg,
                                            ADMIN_EMAILS, known_senders, now))
    IN
    /\ Processing
    /\ HasMessages
    /\ ~AlreadyProcessed
    /\ IsNewTicket
    /\ ~is_admin_email(CurFrom, ADMIN_EMAILS)
    /\ fail # "recheck" => CurThread \notin DOMAIN RecheckMap(rows)
    /\ got_id => counterCell < MaxCounter
    /\ added => Len(rows) < MaxRows
    /\ counterCell' = IF got_id THEN number ELSE counterCell
    /\ issued' = IF got_id THEN Append(issued, number) ELSE issued
    /\ wasted' = IF got_id /\ ~added THEN wasted + 1 ELSE wasted
    /\ labels' = IF labelled
                 THEN [labels EXCEPT ![CurThread] = LabelsAfter(@, status)]
                 ELSE labels
    /\ known_senders' = IF labelled THEN KnownAfter(known_senders, CurFrom)
                        ELSE known_senders
    /\ rows' = IF added THEN new_rows ELSE rows
    /\ appended' = IF added THEN appended + 1 ELSE appended
    /\ ticketed' = IF added THEN ticketed \cup {Lower(CurFrom)} ELSE ticketed
    /\ interrupted' = IF fail = "none" THEN Without(interrupted, CurThread)
                      ELSE IF got_id THEN Put(EmptyMap, CurThread, CurTs)
                      ELSE EmptyMap
    /\ cached_thread_map' = IF fail = "none"
                            THEN [isNone |-> FALSE, map |-> RefreshedMap(new_rows)]
                            ELSE cached_thread_map
    /\ IF fail = "none"
       THEN /\ thread_state' = Put(thread_state, CurThread, CurTs)
            /\ NextThread("create")
       ELSE AbortCycle
    /\ UNCHANGED <<mailbox, trashed, sheetThreadState, sheetLastSync, fileState, now,
                   AUTO_CLOSE_ACTION, sync_counter, last_ticket_map_refresh,
                   known_senders_loaded, ADMIN_EMAILS, last_sync>>

\* The threads whose watermark the cycle changed, with the new watermark
Advanced(file, state) ==
    [t \in {x \in DOMAIN state : Get(file, x, 0) # state[x]} |-> state[t]]

EndFailures == {"none", "backup_clear", "backup_update", "backup_sync", "close_read"}

\* main.py:419-432.  fail names the call that raises; failAt is the row of
\* the Auto-Closer's snapshot whose store call raises (0: none); noTrash are
\* the threads whose trash call raises.
CycleEndStep(fail, failAt, noTrash) ==
    LET backup == sync_counter % SHEET_BACKUP_INTERVAL = 0
        closer == sync_counter % STALE_CHECK_INTERVAL = 0
        run_closer == closer /\ fail = "none"
        res == check_and_close_stale_tickets(rows, trashed, AUTO_CLOSE_ACTION, now,
                                             failAt, noTrash)
        completed == fail = "none" /\ failAt = 0
    IN
    /\ pc = "loop"
    /\ idx > Len(threads)
    /\ fail \in {"backup_clear", "backup_update", "backup_sync"} => backup
    /\ fail = "close_read" => closer
    /\ failAt # 0 => run_closer /\ res.failed
    /\ noTrash # {} => run_closer /\ AUTO_CLOSE_ACTION = "delete"
    /\ fileState' = IF threads # <<>> THEN thread_state ELSE fileState
    /\ sheetThreadState' =
          IF backup /\ fail = "backup_update" THEN EmptyMap
          ELSE IF backup /\ fail # "backup_clear" THEN thread_state
          ELSE sheetThreadState
    /\ sheetLastSync' =
          IF backup /\ fail \notin {"backup_clear", "backup_update", "backup_sync"}
          THEN now ELSE sheetLastSync
    /\ rows' = IF run_closer THEN res.rows ELSE rows
    /\ trashed' = IF run_closer THEN res.trashed ELSE trashed
    /\ pc' = "idle"
    /\ fetched' = <<>>
    /\ threads' = <<>>
    /\ idx' = 1
    /\ thread_state' = EmptyMap
    /\ prevDone' = IF completed THEN Advanced(fileState, thread_state) ELSE EmptyMap
    /\ lastOp' = IF completed THEN "end" ELSE "none"
    /\ interrupted' = EmptyMap
    /\ UNCHANGED <<mailbox, labels, counterCell, now, AUTO_CLOSE_ACTION, globVars,
                   issued, appended, wasted, ticketed, last_sync>>

-----------------------------------------------------------------------------
(* The steps that can end a call of sync_mail_to_sheet, as steps of the    *)
(* engine alone: sync_status belongs to the driver in app.py               *)

CycleStart(listing, fail) == CycleStartStep(listing, fail) /\ UNCHANGED sync_status

FetchFails == FetchFailsStep /\ UNCHANGED sync_status

UpdateExisting(fail) == UpdateExistingStep(fail) /\ UNCHANGED sync_status

CreateTicket(fail) == CreateTicketStep(fail) /\ UNCHANGED sync_status

CycleEnd(fail, failAt, noTrash) == CycleEndStep(fail, failAt, noTrash) /\ UNCHANGED sync_status

-----------------------------------------------------------------------------

Next ==
    \/ \E t \in Threads, from \in FromHeaders, date \in Dates :
          MessageArrives(t, from, date)
    \/ Restart
    \/ \E listing \in BoundedSeq(Threads, MaxList), fail \in StartFailures :
          CycleStart(listing, fail)
    \/ FetchFails
    \/ SkipNoMessages
    \/ SkipProcessed
    \/ SkipAdminInitiated
    \/ \E fail \in UpdateFailures : UpdateExisting(fail)
    \/ RecheckSkip
    \/ \E fail \in CreateFailures : CreateTicket(fail)
    \/ \E fail \in EndFailures, failAt \in 0..MaxRows, noTrash \in SUBSET Threads :
          CycleEnd(fail, failAt, noTrash)

Spec == Init /\ [][Next]_vars

-----------------------------------------------------------------------------
(* Vocabulary of the properties *)

\* the step examined the thread at the head of the loop and went on
ThreadStep == Processing /\ pc' = "loop" /\ idx' = idx + 1

\* the rows of the ticket table that belong to thread t
RowsOf(rs, t) == {i \in 1..Len(rs) : rs[i].thread_id = t}

\* Admin as the specification defines it: the address matches an entry of
\* the configured admin list, or is the authenticated mailbox address
IsAdminAddress(address) ==
    \/ \E i \in 1..Len(InitialAdminEmails) : Lower(InitialAdminEmails[i]) = Lower(address)
    \/ Lower(address) = get_my_email

\* the number n for which id is FormatTicketId(n)
TicketNumber(id) == CHOOSE n \in 0..(MaxCounter + 2) : FormatTicketId(n) = id

-----------------------------------------------------------------------------
(* C1: the ticket table never holds two rows with the same thread_id,     *)
(* whatever the listings (repeated thread ids included), aborted cycles,   *)
(* retries and restarts.                                                   *)
C1_OneRowPerThread ==
    \A i, j \in 1..Len(rows) : rows[i].thread_id = rows[j].thread_id => i = j

C3_TicketIdsIncrease ==
    /\ \A i, j \in 1..Len(issued) : i < j => issued[i] < issued[j]
    /\ \A i, j \in 1..Len(rows) :
          i < j => /\ rows[i].ticket_id # rows[j].ticket_id
                   /\ TicketNumber(rows[i].ticket_id) < TicketNumber(rows[j].ticket_id)

\* two tickets exist and an id was lost to an aborted cycle in between
C3_Witness ==
    /\ Len(rows) = 2
    /\ Len(issued) = 3

(* C4: the counter cell always equals the number of ticket rows ever      *)
(* appended, and the ticket ids present are exactly TCK-000001 up to       *)
(* TCK-00000N for the N rows of the table: no repeats and no gaps.         *)
C4_NoGaps ==
    /\ counterCell = appended
    /\ {rows[i].ticket_id : i \in 1..Len(rows)} =
          {FormatTicketId(n) : n \in 1..Len(rows)}

\* an id was allocated by a cycle that raised before its append: two rows
\* have been appended, the second holds TCK-000003 and TCK-000002 is absent
C4_Witness ==
    /\ appended = 2
    /\ wasted = 1
    /\ counterCell = 3
    /\ rows[2].ticket_id = FormatTicketId(3)
    /\ \A i \in 1..Len(rows) : rows[i].ticket_id # FormatTicketId(2)

(* C5: whenever the loop writes the ticket row of a thread (create or     *)
(* update), the written status is "Awaiting customer reply" if the         *)
(* thread's last-message sender is an Admin address, "Awaiting admin       *)
(* reply" otherwise.                                                       *)
C5_StatusCorrect ==
    [][ ( /\ Processing
          /\ HasMessages
          /\ rows' # rows \/ lastOp' \in {"create", "update"} )
        => ( /\ RowsOf(rows', CurThread) # {}
             /\ \A i \in RowsOf(rows', CurThread) :
                   rows'[i].status =
                      IF IsAdminAddress(CurFrom) THEN StCust ELSE StAdmin ) ]_vars

\* the row of a ticket has just been updated after a reply sent from the
\* authenticated mailbox address
C5_Witness ==
    /\ pc = "loop"
    /\ idx > 1
    /\ lastOp = "update"
    /\ FromOf(LastMsg(mailbox[threads[idx - 1]])) = get_my_email
    /\ \E i \in RowsOf(rows, threads[idx - 1]) : rows[i].status = StCust

(* C6: a thread with no ticket row whose last message is from an Admin    *)
(* address gets no row, no ticket id and no label change, and its          *)
(* watermark is the message timestamp after the step.                      *)
C6_AdminSuppressed ==
    [][ ( /\ ThreadStep
          /\ HasMessages
          /\ RowsOf(rows, CurThread) = {}
          /\ IsAdminAddress(CurFrom) )
        => ( /\ UNCHANGED <<rows, counterCell, issued, labels>>
             /\ lastOp' \in {"skip_admin", "skip_processed"}
             /\ CurThread \in DOMAIN thread_state'
             /\ thread_state'[CurThread] = CurTs ) ]_vars

(* C7: once a ticket row has been appended for a sender address, every    *)
(* ticket row appended later for that address is flagged new-sender "No".  *)
C7_NewSenderPermanence ==
    [][ ( /\ Processing
          /\ Len(rows') = Len(rows) + 1
          /\ Lower(rows'[Len(rows')].from_email) \in ticketed )
        => rows'[Len(rows')].new_sender = "No" ]_vars

(* C8: a step never changes the new-sender column of an existing ticket   *)
(* row.                                                                    *)
C8_FlagFixedAtCreation ==
    [][ \A i \in 1..Len(rows) :
           (i <= Len(rows') /\ rows'[i].thread_id = rows[i].thread_id)
           => rows'[i].new_sender = rows[i].new_sender ]_vars

-----------------------------------------------------------------------------
(* The Auto-Closer pass on a populated ticket table.                       *)
(*                                                                         *)
(* The initial states are those of a process at the end of the loop of its *)
(* cycle number STALE_CHECK_INTERVAL, the listing of that cycle having     *)
(* been empty: each thread 1..n has one ticket row, written some time ago  *)
(* by an earlier run, awaiting the admin (last message from the customer), *)
(* awaiting the customer (an admin replied) or closed by an earlier pass.  *)

CloserThreads == 1..MaxRows

Threshold == AUTO_CLOSE_HOURS * SECONDS_PER_HOUR

\* ages of the rows, in seconds: just under the threshold, at it, over it
CloserAges == {Threshold - 1, Threshold, Threshold + SECONDS_PER_HOUR}

CloserKinds ==
    {k \in [status : {StAdmin, StCust, StClosed}, age : CloserAges] :
        k.status = StClosed => k.age > Threshold}

CloserRow(t, kind, clock) ==
    LET written == create_ticket_row(FormatTicketId(t), t,
                       IF kind.status = StAdmin THEN extract_email(HCarol)
                       ELSE extract_email(HSelf),
                       "Help",
                       IF kind.status = StAdmin THEN StAdmin ELSE StCust,
                       t = 1 /\ kind.status = StAdmin, clock - kind.age)
    IN IF kind.status = StClosed
       THEN [Displayed(written) EXCEPT !.status = StClosed]
       ELSE written

CloserMessages(t, kind) ==
    IF kind.status = StAdmin
    THEN <<Message(2 * t * MS_PER_SECOND, HCarol)>>
    ELSE <<Message(2 * t * MS_PER_SECOND, HCarol),
           Message((2 * t + 1) * MS_PER_SECOND, HSelf)>>

\* the process at the end of the loop of cycle STALE_CHECK_INTERVAL: rows
\* 1..n of the given kinds, the configured action, and the cycle at which
\* the ticket map was last refreshed wholesale
CloserState(n, kinds, action, last) ==
    /\ now = CLOCK_START
    /\ rows = [t \in 1..n |-> CloserRow(t, kinds[t], now)]
    /\ mailbox = [t \in CloserThreads |->
                     IF t <= n THEN CloserMessages(t, kinds[t]) ELSE <<>>]
    /\ labels = [t \in CloserThreads |->
                     IF t > n THEN {}
                     ELSE IF kinds[t].status = StAdmin THEN {LblAdmin} ELSE {LblCust}]
    /\ trashed = {}
    /\ counterCell = n
    /\ sheetThreadState = EmptyMap
    /\ sheetLastSync = 0
    /\ fileState = [t \in 1..n |->
                       TsOf(LastMsg(CloserMessages(t, kinds[t])))]
    /\ AUTO_CLOSE_ACTION = action
    /\ sync_counter = STALE_CHECK_INTERVAL
    /\ cached_thread_map = [isNone |-> FALSE, map |-> get_all_tickets(rows)]
    /\ last_ticket_map_refresh = last
    /\ known_senders = load_known_senders(rows)
    /\ known_senders_loaded = TRUE
    /\ ADMIN_EMAILS = WithMyEmail(InitialAdminEmails)
    /\ pc = "loop"
    /\ fetched = <<>>
    /\ threads = <<>>
    /\ idx = 1
    /\ thread_state = fileState
    /\ issued = [i \in 1..n |-> i]
    /\ appended = n
    /\ sync_status = InitialStatus
    /\ wasted = 0
    /\ ticketed = {extract_email(HCarol)}
    /\ prevDone = EmptyMap
    /\ interrupted = EmptyMap
    /\ last_sync = now - LOOKBACK_SECONDS
    /\ lastOp = "start"

InitCloser ==
    \E n \in 1..MaxRows : \E kinds \in [1..n -> CloserKinds] :
       \E action \in {"close", "delete"} : CloserState(n, kinds, action, 1)

NextCloser ==
    \E fail \in EndFailures, failAt \in 0..MaxRows, noTrash \in SUBSET CloserThreads :
       CycleEnd(fail, failAt, noTrash)

SpecCloser == InitCloser /\ [][NextCloser]_vars

\* the step is the end of a cycle in which the Auto-Closer is due
CloserStep ==
    /\ pc = "loop"
    /\ idx > Len(threads)
    /\ pc' = "idle"
    /\ sync_counter % STALE_CHECK_INTERVAL = 0

C10_AdminRowsUntouched ==
    [][ CloserStep
        => \A i \in 1..Len(rows) :
              rows[i].status = StAdmin
              => \E j \in 1..Len(rows') : rows'[j] = rows[i] ]_vars

\* the rows of rs that an Auto-Closer pass at time clock finds eligible
EligibleRows(rs, clock) == {i \in 1..Len(rs) : IsStale(rs[i], clock)}

\* rs without its eligible rows, the other rows in their order
WithoutEligible(rs, clock) == SelectSeq(rs, LAMBDA r : ~IsStale(r, clock))

(* C11: after a completed pass with action "delete", the rows removed are *)
(* exactly the eligible rows (awaiting the customer, at least               *)
(* AUTO_CLOSE_HOURS old), whatever their number and position, and no thread *)
(* other than theirs has been moved to trash.                               *)
C11_DeleteExactlyEligible ==
    [][ ( /\ CloserStep
          /\ lastOp' = "end"
          /\ AUTO_CLOSE_ACTION = "delete" )
        => ( /\ rows' = WithoutEligible(rows, now)
             /\ trashed' \subseteq
                   trashed \cup {rows[i].thread_id : i \in EligibleRows(rows, now)} ) ]_vars

-----------------------------------------------------------------------------
(* Watermarks and cursor *)

(* C12: the watermark of a thread never decreases: a value persisted in    *)
(* thread_state.txt is never replaced by a lower one nor dropped, a cycle   *)
(* starts from at least the persisted value, and a step of the loop that    *)
(* sets the watermark of its thread sets it to a strictly greater           *)
(* timestamp and leaves the watermarks of the other threads alone.          *)
C12_WatermarkMonotonic ==
    [][ /\ \A t \in DOMAIN fileState :
              t \in DOMAIN fileState' /\ fileState'[t] >= fileState[t]
        /\ (pc = "idle" /\ pc' = "loop")
              => \A t \in DOMAIN fileState : Get(thread_state', t, 0) >= fileState[t]
        /\ (Processing /\ pc' = "loop")
              => /\ \A t \in DOMAIN thread_state :
                       t \in DOMAIN thread_state' /\ thread_state'[t] >= thread_state[t]
                 /\ \A t \in DOMAIN thread_state' :
                       t # CurThread => Get(thread_state, t, 0) = thread_state'[t]
                 /\ lastOp' \in {"create", "update", "skip_admin"}
                       => thread_state'[CurThread] > Get(thread_state, CurThread, 0) ]_vars

\* an update has just raised the watermark of a thread above the value the
\* file holds for it
C12_Witness ==
    /\ pc = "loop"
    /\ idx > 1
    /\ lastOp = "update"
    /\ threads[idx - 1] \in DOMAIN fileState
    /\ fileState[threads[idx - 1]] > 0
    /\ thread_state[threads[idx - 1]] > fileState[threads[idx - 1]]

(* The sync cursor over cycles, restarts and the passing of time.          *)
(*                                                                         *)
(* The mailbox and the ticket table are empty and stay empty; the process  *)
(* is either new or has run BackupWindowStart cycles, so that the cycle in *)
(* which the cursor is backed up to Sync_State!B1 is among its next ones.  *)

\* The scheduler runs a cycle every SYNC_INTERVAL_SECONDS (app.py:30): the
\* clock moves by that much between steps.
Tick ==
    /\ pc = "idle"
    /\ now < CLOCK_START + MaxTicks * SYNC_INTERVAL_SECONDS
    /\ now' = now + SYNC_INTERVAL_SECONDS
    /\ lastOp' = "none"
    /\ UNCHANGED <<mailVars, storeVars, fileState, AUTO_CLOSE_ACTION, sync_status, globVars,
                   cycleVars, issued, appended, wasted, ticketed, prevDone, last_sync, interrupted>>

InitCursor ==
    /\ mailbox = [t \in Threads |-> <<>>]
    /\ labels = [t \in Threads |-> {}]
    /\ trashed = {}
    /\ rows = <<>>
    /\ counterCell = 0
    /\ sheetThreadState = EmptyMap
    /\ sheetLastSync = 0
    /\ fileState = EmptyMap
    /\ now = CLOCK_START
    /\ AUTO_CLOSE_ACTION = "close"
    /\ \/ ProcessInit /\ last_sync = 0
       \/ /\ sync_counter = BackupWindowStart
          /\ cached_thread_map = [isNone |-> FALSE, map |-> EmptyMap]
          /\ last_ticket_map_refresh =
                BackupWindowStart - ((BackupWindowStart - 1) % TICKET_MAP_REFRESH_INTERVAL)
          /\ known_senders = {}
          /\ known_senders_loaded = TRUE
          /\ ADMIN_EMAILS = WithMyEmail(InitialAdminEmails)
          /\ pc = "idle"
          /\ fetched = <<>>
          /\ threads = <<>>
          /\ idx = 1
          /\ thread_state = EmptyMap
          /\ last_sync = now - LOOKBACK_SECONDS
    /\ issued = <<>>
    /\ appended = 0
    /\ sync_status = InitialStatus
    /\ wasted = 0
    /\ ticketed = {}
    /\ prevDone = EmptyMap
    /\ interrupted = EmptyMap
    /\ lastOp = "none"

NextCursor ==
    \/ Tick
    \/ Restart
    \/ \E fail \in StartFailures : CycleStart(<<>>, fail)
    \/ \E fail \in EndFailures : CycleEnd(fail, 0, {})

SpecCursor == InitCursor /\ [][NextCursor]_vars

(* C13: the lower bound of the mailbox query of a cycle is at least the    *)
(* lower bound of the query of every earlier cycle, restarts included.      *)
C13_CursorMonotonic ==
    [][ last_sync # 0 => last_sync' >= last_sync ]_vars

-----------------------------------------------------------------------------
(* The loop body: retries, re-check, labels, updates *)

(* C14: when a cycle was interrupted after a ticket id had been allocated  *)
(* for a thread, a later cycle that examines the thread with the same last  *)
(* message (and whose examination is not itself cut short by a failed call  *)
(* before it changes anything) skips it at the watermark gate: no other     *)
(* ticket id is allocated and no row is written.                            *)
C14_RetrySkipsWatermarked ==
    [][ ( /\ Processing
          /\ HasMessages
          /\ CurThread \in DOMAIN interrupted
          /\ interrupted[CurThread] = CurTs
          /\ ThreadStep \/ counterCell' # counterCell \/ rows' # rows )
        => ( /\ lastOp' = "skip_processed"
             /\ UNCHANGED <<counterCell, rows>> ) ]_vars

(* C15: every address in the known-sender set is the sender for which some *)
(* ticket row was appended, and the first ticket row appended for an        *)
(* address is flagged new-sender "Yes".                                     *)
C15_KnownSendersHaveTickets ==
    [][ /\ known_senders' \subseteq ticketed'
        /\ ( /\ Processing
             /\ Len(rows') = Len(rows) + 1
             /\ Lower(rows'[Len(rows')].from_email) \notin ticketed )
           => rows'[Len(rows')].new_sender = "Yes" ]_vars

(* C16: whenever a cycle examines a thread that has a ticket (the thread   *)
(* is in the cached map and in the table) and whose last message is newer  *)
(* than the message the ticket row was written from - the row shows a      *)
(* sender other than the sender of the last message, so the last message   *)
(* has not been written - the cycle rewrites the row, also when the two    *)
(* messages fall in the same second.                                       *)
C16_NewerMessageRewritesRow ==
    [][ ( /\ ThreadStep
          /\ HasMessages
          /\ ~IsNewTicket
          /\ RowsOf(rows, CurThread) # {}
          /\ \A i \in RowsOf(rows, CurThread) : rows[i].from_email # CurFrom )
        => lastOp' = "update" ]_vars

(* C17: when the loop gets through a thread that is absent from the cached *)
(* map, is past the watermark gate, has an external last sender and has a   *)
(* row in the table as re-read before the id allocation, it allocates no    *)
(* id, changes no label, writes no row, and the cached map becomes the      *)
(* re-read map.                                                             *)
C17_RecheckAbandonsCreation ==
    [][ ( /\ ThreadStep
          /\ HasMessages
          /\ CurTs > Get(thread_state, CurThread, 0)
          /\ CurThread \notin DOMAIN cached_thread_map.map
          /\ ~IsAdminAddress(CurFrom)
          /\ RowsOf(rows, CurThread) # {} )
        => ( /\ UNCHANGED <<counterCell, issued, labels, rows>>
             /\ ~cached_thread_map'.isNone
             /\ DOMAIN cached_thread_map'.map = {rows[i].thread_id : i \in 1..Len(rows)}
             /\ \A t \in DOMAIN cached_thread_map'.map :
                   rows[cached_thread_map'.map[t] - 1].thread_id = t ) ]_vars

\* the re-check has just found the row of a thread the cached map did not
\* hold; the row had been appended by a cycle that raised at its refresh of
\* the map, and the thread is now in the cached map
C17_Witness ==
    /\ pc = "loop"
    /\ idx > 1
    /\ lastOp = "recheck_skip"
    /\ threads[idx - 1] \in DOMAIN cached_thread_map.map
    /\ rows[cached_thread_map.map[threads[idx - 1]] - 1].thread_id = threads[idx - 1]
    /\ counterCell = appended
    /\ Len(issued) = Len(rows)

\* the label that mirrors a status, and the label of the opposite status
LabelOf(status) == IF status = StAdmin THEN LblAdmin ELSE LblCust

OppositeLabelOf(status) == IF status = StAdmin THEN LblCust ELSE LblAdmin

(* C18: a step that writes the ticket row of a thread with status S leaves *)
(* the thread with the label of S and without the label of the opposite     *)
(* status; and at the end of every completed cycle each thread whose row    *)
(* is "Awaiting admin reply" or "Awaiting customer reply" carries the label *)
(* of that status and not the opposite one.                                 *)
C18_LabelsMirrorStatus ==
    [][ /\ ( /\ Processing
             /\ HasMessages
             /\ lastOp' \in {"create", "update"} )
           => \A i \in RowsOf(rows', CurThread) :
                 /\ LabelOf(rows'[i].status) \in labels'[CurThread]
                 /\ OppositeLabelOf(rows'[i].status) \notin labels'[CurThread]
        /\ lastOp' = "end"
           => \A i \in 1..Len(rows') :
                 rows'[i].status \in {StAdmin, StCust}
                 => /\ LabelOf(rows'[i].status) \in labels'[rows'[i].thread_id]
                    /\ OppositeLabelOf(rows'[i].status) \notin labels'[rows'[i].thread_id]
      ]_vars

-----------------------------------------------------------------------------
(* The cycle after an Auto-Closer pass that deletes rows.                  *)
(*                                                                         *)
(* The initial states are those of the Auto-Closer pass with action        *)
(* "delete" on a table of at least two rows.  The ticket map was refreshed *)
(* wholesale at cycle 1, or at cycle 2 because the get_all_values of cycle *)
(* 1 raised (main.py:249-253: sync_counter is incremented before the read, *)
(* last_ticket_map_refresh only after it).  After the pass one reply is    *)
(* delivered and cycle STALE_CHECK_INTERVAL + 1 runs.                       *)

\* kinds of rows: under or over the age threshold
AfterCloserKinds == {k \in CloserKinds : k.age # Threshold}

\* date of the reply: later than every message of the initial mailbox
ReplyDate == (2 * MaxRows + 2) * MS_PER_SECOND

InitAfterCloser ==
    \E n \in 2..MaxRows : \E kinds \in [1..n -> AfterCloserKinds] :
       \E last \in 1..2 : CloserState(n, kinds, "delete", last)

\* A reply is delivered into a thread that has messages
ReplyArrives(t, from) ==
    /\ pc = "idle"
    /\ mailbox[t] # <<>>
    /\ \A u \in CloserThreads : \A i \in 1..Len(mailbox[u]) :
          mailbox[u][i].internalDate < ReplyDate
    /\ mailbox' = [mailbox EXCEPT ![t] = Append(@, Message(ReplyDate, from))]
    /\ lastOp' = "none"
    /\ UNCHANGED <<labels, trashed, storeVars, fileState, now, AUTO_CLOSE_ACTION, sync_status,
                   globVars, cycleVars, issued, appended, wasted, ticketed,
                   prevDone, last_sync, interrupted>>

NextAfterCloser ==
    \/ \E t \in Threads, from \in FromHeaders : ReplyArrives(t, from)
    \/ \E listing \in BoundedSeq(Threads, MaxList) : CycleStart(listing, "none")
    \/ SkipProcessed
    \/ SkipAdminInitiated
    \/ \E fail \in UpdateFailures : UpdateExisting(fail)
    \/ \E fail \in CreateFailures : CreateTicket(fail)
    \/ CycleEnd("none", 0, {})

SpecAfterCloser == InitAfterCloser /\ [][NextAfterCloser]_vars

(* C19: for a thread that has a ticket row, an update writes only a row    *)
(* that had, before the step, the thread_id of that thread, and writes it  *)
(* with the ticket_id it had; the ticket-id counter is unchanged and no    *)
(* row is appended.                                                        *)
C19_UpdateKeepsId ==
    [][ (Processing /\ RowsOf(rows, CurThread) # {} /\ lastOp' = "update")
        => ( /\ counterCell' = counterCell
             /\ Len(rows') = Len(rows)
             /\ \A i \in 1..Len(rows) :
                   rows'[i] # rows[i]
                   => /\ rows[i].thread_id = CurThread
                      /\ rows'[i].thread_id = rows[i].thread_id
                      /\ rows'[i].ticket_id = rows[i].ticket_id ) ]_vars

\* The per-thread state NewAdminInitiated: a completed cycle has persisted a
\* watermark for the thread and the thread has no ticket row.  A cycle that
\* completes sets a watermark without writing a row only at main.py:345-348
\* (the watermark of main.py:374 is followed by the append or by an
\* exception, and an aborted cycle persists nothing).
NewAdminInitiated(t) == t \in DOMAIN fileState /\ RowsOf(rows, t) = {}

(* C20: once a thread without a ticket has been skipped as                 *)
(* admin-initiated, no later step creates a ticket row for it, whatever    *)
(* messages arrive on it.                                                  *)
C20_AdminInitiatedTerminal ==
    [][ \A t \in Threads :
           NewAdminInitiated(t) => RowsOf(rows', t) = {} ]_vars

(* C20, as the code has it: a thread that was skipped as admin-initiated   *)
(* gets a ticket row only from a step that processes it with a last        *)
(* message from a non-admin sender, and the row then carries that sender   *)
(* and the status "Awaiting admin reply".                                  *)
C20_TicketOnCustomerMessage ==
    [][ \A t \in Threads :
           (NewAdminInitiated(t) /\ RowsOf(rows', t) # {})
           => ( /\ Processing
                /\ CurThread = t
                /\ HasMessages
                /\ ~IsAdminAddress(CurFrom)
                /\ \A i \in RowsOf(rows', t) :
                      /\ rows'[i].from_email = CurFrom
                      /\ rows'[i].status = StAdmin ) ]_vars

\* a ticket has just been created for a thread whose first message is from
\* an Admin and whose persisted watermark is still that of the admin skip
C20_Witness ==
    /\ pc = "loop"
    /\ idx > 1
    /\ lastOp = "create"
    /\ LET t == threads[idx - 1] IN
          /\ IsAdminAddress(FromOf(mailbox[t][1]))
          /\ t \in DOMAIN fileState
          /\ fileState[t] = TsOf(mailbox[t][1])
          /\ Len(mailbox[t]) > 1
          /\ \E i \in RowsOf(rows, t) : rows[i].status = StAdmin

-----------------------------------------------------------------------------
(* Cycles without failures, over listings that repeat thread ids.          *)

MaxFetched == 3

NextListing ==
    \/ \E t \in Threads, from \in FromHeaders, date \in Dates :
          MessageArrives(t, from, date)
    \/ \E listing \in BoundedSeq(Threads, MaxFetched) : CycleStart(listing, "none")
    \/ SkipNoMessages
    \/ SkipProcessed
    \/ SkipAdminInitiated
    \/ UpdateExisting("none")
    \/ CreateTicket("none")
    \/ CycleEnd("none", 0, {})

SpecListing == Init /\ [][NextListing]_vars

\* the position of the first occurrence of x in seq
FirstIndex(seq, x) == CHOOSE i \in 1..Len(seq) :
    seq[i] = x /\ \A j \in 1..(i - 1) : seq[j] # x

(* C21: the threads the loop goes through are those of the listing, each   *)
(* once, in the order of their first occurrences in the listing; and a     *)
(* loop step that writes a row, changes a label or allocates an id does so *)
(* for a thread that no earlier step of the cycle has examined.            *)
C21_ProcessedOnce ==
    [][ /\ (pc = "idle" /\ pc' = "loop")
           => ( /\ \A i, j \in 1..Len(threads') : threads'[i] = threads'[j] => i = j
                /\ {threads'[i] : i \in 1..Len(threads')}
                      = {fetched'[i] : i \in 1..Len(fetched')}
                /\ \A i, j \in 1..Len(threads') :
                      i < j => FirstIndex(fetched', threads'[i])
                                  < FirstIndex(fetched', threads'[j]) )
        /\ ( /\ Processing
             /\ rows' # rows \/ labels' # labels \/ counterCell' # counterCell )
           => \A k \in 1..(idx - 1) : threads[k] # CurThread ]_vars

\* a listing that names thread 2, thread 1 and thread 2 again has just been
\* reduced to thread 2 followed by thread 1; both threads have messages
C21_Witness ==
    /\ pc = "loop"
    /\ idx = 1
    /\ fetched = <<2, 1, 2>>
    /\ threads = <<2, 1>>
    /\ mailbox[1] # <<>>
    /\ mailbox[2] # <<>>


-----------------------------------------------------------------------------
(* The cycles as app.py's scheduler runs them: every run of                *)
(* sync_mail_to_sheet is wrapped by scheduled_sync, which records its      *)
(* outcome in sync_status.  The next cycle of the process is the one that  *)
(* backs the watermarks up, all its cycles so far returned, and the mail   *)
(* comes from a customer.                                                  *)

\* Faulty variant of scheduled_sync: a run that raised is counted too
scheduled_syncCountsAll(status, err, clock) ==
    IF err = "none"
    THEN [last_sync |-> clock, last_error |-> "None", sync_count |-> status.sync_count + 1]
    ELSE [status EXCEPT !.last_error = err, !.sync_count = status.sync_count + 1]

\* app.py:30-42: err is "none" when sync_mail_to_sheet returned, else the
\* text of the exception, which here is the name of the call that raised
scheduled_sync(status, err, clock) ==
    IF err = "none"
    THEN [last_sync |-> clock, last_error |-> "None", sync_count |-> status.sync_count + 1]
    ELSE [status EXCEPT !.last_error = err]

ScheduledCycleStart(listing, fail) ==
    /\ CycleStartStep(listing, fail)
    /\ sync_status' = IF fail = "none" THEN sync_status
                      ELSE scheduled_sync(sync_status, fail, now)

ScheduledFetchFails ==
    /\ FetchFailsStep
    /\ sync_status' = scheduled_sync(sync_status, "thread", now)

ScheduledUpdateExisting(fail) ==
    /\ UpdateExistingStep(fail)
    /\ sync_status' = IF fail = "none" THEN sync_status
                      ELSE scheduled_sync(sync_status, fail, now)

ScheduledCreateTicket(fail) ==
    /\ CreateTicketStep(fail)
    /\ sync_status' = IF fail = "none" THEN sync_status
                      ELSE scheduled_sync(sync_status, fail, now)

ScheduledCycleEnd(fail) ==
    /\ CycleEndStep(fail, 0, {})
    /\ sync_status' = scheduled_sync(sync_status, fail, now)

MaxScheduledTicks == 1

\* app.py:30: the interval between two runs
ScheduledTick ==
    /\ now < CLOCK_START + MaxScheduledTicks * SYNC_INTERVAL_SECONDS
    /\ Tick

InitScheduled ==
    /\ mailbox = [t \in Threads |-> <<>>]
    /\ labels = [t \in Threads |-> {}]
    /\ trashed = {}
    /\ rows = <<>>
    /\ counterCell = 0
    /\ sheetThreadState = EmptyMap
    /\ sheetLastSync = 0
    /\ fileState = EmptyMap
    /\ now = CLOCK_START
    /\ AUTO_CLOSE_ACTION = "close"
    /\ sync_counter = BackupWindowStart + 1
    /\ cached_thread_map = [isNone |-> FALSE, map |-> EmptyMap]
    /\ last_ticket_map_refresh =
          BackupWindowStart + 1 - (BackupWindowStart % TICKET_MAP_REFRESH_INTERVAL)
    /\ known_senders = {}
    /\ known_senders_loaded = TRUE
    /\ ADMIN_EMAILS = WithMyEmail(InitialAdminEmails)
    /\ pc = "idle"
    /\ fetched = <<>>
    /\ threads = <<>>
    /\ idx = 1
    /\ thread_state = EmptyMap
    /\ last_sync = now - LOOKBACK_SECONDS
    /\ sync_status = [last_sync |-> now - SYNC_INTERVAL_SECONDS,
                      last_error |-> "None",
                      sync_count |-> BackupWindowStart + 1]
    /\ issued = <<>>
    /\ appended = 0
    /\ wasted = 0
    /\ ticketed = {}
    /\ prevDone = EmptyMap
    /\ interrupted = EmptyMap
    /\ lastOp = "none"

NextScheduled ==
    \/ ScheduledTick
    \/ \E t \in Threads, date \in Dates : MessageArrives(t, HCarol, date)
    \/ \E listing \in BoundedSeq(Threads, MaxList), fail \in StartFailures :
          ScheduledCycleStart(listing, fail)
    \/ ScheduledFetchFails
    \/ SkipNoMessages
    \/ SkipProcessed
    \/ \E fail \in UpdateFailures : ScheduledUpdateExisting(fail)
    \/ \E fail \in CreateFailures : ScheduledCreateTicket(fail)
    \/ \E fail \in EndFailures : ScheduledCycleEnd(fail)

SpecScheduled == InitScheduled /\ [][NextScheduled]_vars


\* the step is one in which a call of the engine raised: of the steps that
\* leave lastOp at "none", only the clock's and a message's arrival are not
Raised ==
    /\ lastOp' = "none"
    /\ now' = now
    /\ mailbox' = mailbox

\* the raise came after the thread loop, from the backup of main.py:424-428
RaisedAfterLoop == Raised /\ pc = "loop" /\ idx > Len(threads)

(* C22 as stated: a run that raises processes no further thread, leaves    *)
(* the watermark file as it was when the cycle started, and the driver      *)
(* records the error and goes on.                                           *)
C22_AbortLeavesFile ==
    [][ /\ Raised => ( /\ fileState' = fileState
                       /\ pc' = "idle"
                       /\ threads' = <<>>
                       /\ sync_status'.last_error # "None" )
        /\ Processing => fileState' = fileState ]_vars

(* C22, amended: a run that raises processes no further thread and the     *)
(* driver records the error and goes on; the watermark file is as it was   *)
(* when the cycle started if the raise came before the end of the thread   *)
(* loop, and holds the watermarks of the cycle's threads if the raise came *)
(* from the backup that follows the save of the file.                      *)
C22_AbortKeepsFileUntilSaved ==
    [][ /\ Raised => ( /\ pc' = "idle"
                       /\ threads' = <<>>
                       /\ sync_status'.last_error # "None"
                       /\ \A t \in Threads :
                             (pc = "loop" /\ idx <= Len(threads) /\ t # CurThread)
                                => labels'[t] = labels[t] /\ RowsOf(rows', t) = RowsOf(rows, t) )
        /\ (Raised /\ ~RaisedAfterLoop) => fileState' = fileState
        /\ RaisedAfterLoop =>
              fileState' = IF threads # <<>> THEN thread_state ELSE fileState
        /\ Processing => fileState' = fileState ]_vars

\* the backup of cycle 50 raised after the cycle's watermarks were saved
C22_Witness ==
    /\ pc = "idle"
    /\ sync_counter = SHEET_BACKUP_INTERVAL
    /\ sync_status.last_error = "backup_clear"
    /\ fileState # EmptyMap
    /\ Len(rows) = 1


\* the step is the end of a run that returned
Returned == pc = "loop" /\ pc' = "idle" /\ lastOp' = "end"

\* the texts of the errors a run can end with at the place it has reached
ErrorTexts ==
    IF pc = "idle" THEN StartFailures \ {"none"}
    ELSE IF idx <= Len(threads)
         THEN ({"thread"} \cup UpdateFailures \cup CreateFailures) \ {"none"}
         ELSE EndFailures \ {"none"}

(* C23: sync_count grows by one with every run that returned and with no   *)
(* other step; a run that returned sets last_error to None and last_sync to *)
(* the time of its end; a run that raised sets last_error to the text of    *)
(* its exception and leaves last_sync and sync_count alone; no other step   *)
(* changes the status.                                                      *)
C23_StatusFollowsRuns ==
    [][ /\ Returned =>
              sync_status' = [last_sync |-> now, last_error |-> "None",
                              sync_count |-> sync_status.sync_count + 1]
        /\ Raised =>
              /\ sync_status'.last_error \in ErrorTexts
              /\ sync_status'.last_sync = sync_status.last_sync
              /\ sync_status'.sync_count = sync_status.sync_count
        /\ ~(Returned \/ Raised) => sync_status' = sync_status ]_vars

\* a run raised, later than the clock time of the one run that returned
C23_Witness ==
    /\ pc = "idle"
    /\ sync_status.last_error = "fetch"
    /\ sync_status.sync_count = BackupWindowStart + 2
    /\ sync_status.last_sync = CLOCK_START
    /\ now > CLOCK_START


(* C24: when get_thread_details returns a thread without messages, the     *)
(* step changes no watermark, label, row, counter or issued id, in memory  *)
(* or stored, and the loop goes on with the next thread of the listing.    *)
C24_EmptyThreadSkipped ==
    [][ (Processing /\ ~HasMessages /\ lastOp' # "none")
           => /\ pc' = "loop"
              /\ threads' = threads
              /\ idx' = idx + 1
              /\ thread_state' = thread_state
              /\ fileState' = fileState
              /\ labels' = labels
              /\ trashed' = trashed
              /\ rows' = rows
              /\ counterCell' = counterCell
              /\ issued' = issued
              /\ cached_thread_map' = cached_thread_map ]_vars

\* an empty thread was skipped and the next thread of the listing has mail
C24_Witness ==
    /\ lastOp = "skip_nomsg"
    /\ pc = "loop"
    /\ idx = 2
    /\ Len(threads) = 2
    /\ mailbox[threads[1]] = <<>>
    /\ mailbox[threads[2]] # <<>>


-----------------------------------------------------------------------------
(* The auto-reply variant, new1.py: its own sync_mail_to_sheet, run by its *)
(* own loop.  The ticket map is read at the start of every cycle, the      *)
(* only admin is the mailbox's own address, the watermark file is saved    *)
(* after every processed thread, and the sync cursor is kept in            *)
(* last_sync.txt (sheetLastSync here).  A sent acknowledgement is a        *)
(* message of the thread, from the mailbox's own address.                  *)

\* new1.py:172-197: the mail send_auto_reply builds; Gmail puts the
\* account's address in place of From "me" and stamps the time of sending
AutoReply(to_email, ticket_id, subject, clock) ==
    [internalDate |-> clock * MS_PER_SECOND,
     headers |-> ("From" :> HSelf) @@ ("To" :> to_email) @@ ("Subject" :> "Re: " \o subject),
     body |-> ticket_id]

\* Faulty variant of send_auto_reply: the mail goes to the mailbox's own address
send_auto_replyToSelf(mb, to_email, ticket_id, subject, thread_id, clock, ok) ==
    IF ok
    THEN [mb EXCEPT ![thread_id] = Append(@, AutoReply(get_my_email, ticket_id, subject, clock))]
    ELSE mb

\* new1.py:163-218: the mailbox after the call; ok is whether
\* messages().send returned (an exception is caught and False returned)
send_auto_reply(mb, to_email, ticket_id, subject, thread_id, clock, ok) ==
    IF ok
    THEN [mb EXCEPT ![thread_id] = Append(@, AutoReply(to_email, ticket_id, subject, clock))]
    ELSE mb

\* new1.py:108-119: the earliest message whose sender is not the mailbox
\* (0: none)
get_first_customer_message(msgs, my_email) ==
    IF \A i \in 1..Len(msgs) : FromOf(msgs[i]) = my_email THEN 0
    ELSE CHOOSE i \in 1..Len(msgs) :
            /\ FromOf(msgs[i]) # my_email
            /\ \A j \in 1..Len(msgs) :
                  FromOf(msgs[j]) # my_email =>
                     \/ msgs[i].internalDate < msgs[j].internalDate
                     \/ (msgs[i].internalDate = msgs[j].internalDate /\ i <= j)

\* new1.py:295-298
New1Status(from_email) == IF from_email = get_my_email THEN StCust ELSE StAdmin

\* what main.py has and new1.py has not
New1Unused == <<trashed, sheetThreadState, now, AUTO_CLOSE_ACTION, sync_status,
                sync_counter, last_ticket_map_refresh, known_senders,
                known_senders_loaded, ADMIN_EMAILS, wasted, ticketed>>

\* new1.py:221-245.  fail is TRUE when one of the calls raises
New1CycleStart(listing, fail) ==
    /\ pc = "idle"
    /\ fail => listing = <<>>
    /\ IF fail
       THEN AbortCycle /\ UNCHANGED <<cached_thread_map, last_sync>>
       ELSE /\ cached_thread_map' = [isNone |-> FALSE, map |-> get_all_tickets(rows)]
            /\ thread_state' = load_thread_state_from_file(fileState)
            /\ last_sync' = QueryLowerBound(sheetLastSync, now)
            /\ pc' = "loop"
            /\ fetched' = listing
            /\ threads' = listing
            /\ idx' = 1
            /\ lastOp' = "start"
            /\ UNCHANGED prevDone
    /\ interrupted' = EmptyMap
    /\ UNCHANGED <<mailVars, rows, counterCell, sheetLastSync, fileState,
                   issued, appended>>
    /\ UNCHANGED New1Unused

\* new1.py:251: threads().get raises
New1FetchFails ==
    /\ Processing
    /\ AbortCycle
    /\ interrupted' = EmptyMap
    /\ UNCHANGED <<mailVars, rows, counterCell, sheetLastSync, fileState,
                   cached_thread_map, issued, appended, last_sync>>
    /\ UNCHANGED New1Unused

\* new1.py:276-280
New1SkipOwn ==
    /\ Processing
    /\ HasMessages
    /\ ~AlreadyProcessed
    /\ IsNewTicket
    /\ CurFrom = get_my_email
    /\ thread_state' = Put(thread_state, CurThread, CurTs)
    /\ NextThread("skip_admin")
    /\ UNCHANGED <<mailVars, rows, counterCell, sheetLastSync, fileState,
                   cached_thread_map, issued, appended, last_sync>>
    /\ UNCHANGED New1Unused

New1UpdateFailures == {"none", "row_values", "labels", "update"}

\* new1.py:282-286, 294-326, 344-346: the thread is in the ticket map
New1Update(fail) ==
    LET row_num == cached_thread_map.map[CurThread]
        ticket_id == Displayed(rows[row_num - 1]).ticket_id
        status == New1Status(CurFrom)
    IN
    /\ Processing
    /\ HasMessages
    /\ ~AlreadyProcessed
    /\ ~IsNewTicket
    /\ labels' = IF fail \in {"none", "update"}
                 THEN [labels EXCEPT ![CurThread] = LabelsAfter(@, status)]
                 ELSE labels
    /\ rows' = IF fail = "none"
               THEN WriteRow(rows, row_num,
                       create_ticket_row(ticket_id, CurThread, CurFrom, SubjectOf(CurMsg),
                                         status, FALSE, now))
               ELSE rows
    /\ IF fail = "none"
       THEN /\ thread_state' = Put(thread_state, CurThread, CurTs)
            /\ fileState' = Put(thread_state, CurThread, CurTs)
            /\ NextThread("update")
       ELSE AbortCycle /\ interrupted' = EmptyMap /\ UNCHANGED fileState
    /\ UNCHANGED <<mailbox, counterCell, sheetLastSync, cached_thread_map,
                   issued, appended, last_sync>>
    /\ UNCHANGED New1Unused

New1CreateFailures == {"none", "counter_read", "counter_write", "labels", "append"}

\* new1.py:287-290, 294-346: the thread is not in the ticket map and its
\* last sender is not the mailbox.  sent is whether messages().send returned.
New1Create(fail, sent) ==
    LET number == NextTicketNumber(counterCell)
        ticket_id == FormatTicketId(number)
        status == New1Status(CurFrom)
        got_id == fail \in {"none", "labels", "append"}
        labelled == fail \in {"none", "append"}
        added == fail = "none"
        first_customer_msg == get_first_customer_message(mailbox[CurThread], get_my_email)
    IN
    /\ Processing
    /\ HasMessages
    /\ ~AlreadyProcessed
    /\ IsNewTicket
    /\ CurFrom # get_my_email
    /\ sent => added /\ first_customer_msg # 0
    /\ got_id => counterCell < MaxCounter
    /\ added => Len(rows) < MaxRows
    /\ counterCell' = IF got_id THEN number ELSE counterCell
    /\ issued' = IF got_id THEN Append(issued, number) ELSE issued
    /\ labels' = IF labelled
                 THEN [labels EXCEPT ![CurThread] = LabelsAfter(@, status)]
                 ELSE labels
    /\ rows' = IF added
               THEN Append(rows, create_ticket_row(ticket_id, CurThread, CurFrom,
                                                   SubjectOf(CurMsg), status, FALSE, now))
               ELSE rows
    /\ appended' = IF added THEN appended + 1 ELSE appended
    /\ mailbox' = IF added /\ first_customer_msg # 0
                  THEN send_auto_reply(mailbox, CurFrom, ticket_id, SubjectOf(CurMsg),
                                       CurThread, now, sent)
                  ELSE mailbox
    /\ IF added
       THEN /\ thread_state' = Put(thread_state, CurThread, CurTs)
            /\ fileState' = Put(thread_state, CurThread, CurTs)
            /\ NextThread("create")
       ELSE AbortCycle /\ interrupted' = EmptyMap /\ UNCHANGED fileState
    /\ UNCHANGED <<sheetLastSync, cached_thread_map, last_sync>>
    /\ UNCHANGED New1Unused

\* new1.py:348: save_last_sync(int(time.time()))
New1CycleEnd ==
    /\ pc = "loop"
    /\ idx > Len(threads)
    /\ sheetLastSync' = now
    /\ pc' = "idle"
    /\ fetched' = <<>>
    /\ threads' = <<>>
    /\ idx' = 1
    /\ thread_state' = EmptyMap
    /\ prevDone' = EmptyMap
    /\ lastOp' = "end"
    /\ interrupted' = EmptyMap
    /\ UNCHANGED <<mailVars, rows, counterCell, fileState, cached_thread_map,
                   issued, appended, last_sync>>
    /\ UNCHANGED New1Unused

NextNew1 ==
    \/ \E t \in Threads, from \in {HCarol, HSelf}, date \in Dates :
          MessageArrives(t, from, date)
    \/ \E listing \in BoundedSeq(Threads, MaxList), fail \in BOOLEAN :
          New1CycleStart(listing, fail)
    \/ New1FetchFails
    \/ SkipNoMessages
    \/ SkipProcessed
    \/ New1SkipOwn
    \/ \E fail \in New1UpdateFailures : New1Update(fail)
    \/ \E fail \in New1CreateFailures, sent \in BOOLEAN : New1Create(fail, sent)
    \/ New1CycleEnd

SpecNew1 == Init /\ [][NextNew1]_vars


\* the message is an acknowledgement sent by send_auto_reply
IsAck(m) == "To" \in DOMAIN m.headers

(* C25: in new1.py the mailbox sends a mail only in a step that appends    *)
(* the row of a new ticket: one acknowledgement, in the ticket's thread,   *)
(* to the sender of the row, who is not the mailbox itself, naming the     *)
(* row's ticket id; a step on a thread that has a ticket sends nothing;    *)
(* and when the row is appended but the send fails, the row and its id     *)
(* stay, the thread's watermark is set and saved, and the loop goes on.    *)
C25_AckOnlyOnNewTicket ==
    [][ /\ (pc = "loop" /\ mailbox' # mailbox) =>
              /\ Processing
              /\ IsNewTicket
              /\ Len(rows') = Len(rows) + 1
              /\ rows'[Len(rows')].thread_id = CurThread
              /\ \A u \in Threads \ {CurThread} : mailbox'[u] = mailbox[u]
              /\ Len(mailbox'[CurThread]) = Len(mailbox[CurThread]) + 1
              /\ SubSeq(mailbox'[CurThread], 1, Len(mailbox[CurThread])) = mailbox[CurThread]
              /\ LET m == mailbox'[CurThread][Len(mailbox'[CurThread])]
                     r == rows'[Len(rows')]
                 IN /\ IsAck(m)
                    /\ m.headers["To"] = r.from_email
                    /\ m.headers["To"] # get_my_email
                    /\ m.body = r.ticket_id
        /\ (Processing /\ HasMessages /\ ~IsNewTicket) => mailbox' = mailbox
        /\ (Processing /\ Len(rows') = Len(rows) + 1 /\ mailbox' = mailbox) =>
              /\ SubSeq(rows', 1, Len(rows)) = rows
              /\ rows'[Len(rows')].ticket_id = FormatTicketId(counterCell')
              /\ counterCell' = counterCell + 1
              /\ thread_state' = Put(thread_state, CurThread, CurTs)
              /\ fileState' = thread_state'
              /\ pc' = "loop"
              /\ threads' = threads
              /\ idx' = idx + 1 ]_vars

\* a ticket was created for thread 1, the acknowledgement could not be
\* sent, and the loop stands at thread 2
C25_Witness ==
    /\ pc = "loop"
    /\ lastOp = "create"
    /\ threads = <<1, 2>>
    /\ idx = 2
    /\ mailbox[2] # <<>>
    /\ Len(rows) = 1
    /\ rows[1].thread_id = 1
    /\ \A i \in 1..Len(mailbox[1]) : ~IsAck(mailbox[1][i])
    /\ 1 \in DOMAIN fileState


-----------------------------------------------------------------------------
(* The admin list as an operator may configure it at main.py:45-47: up to  *)
(* MaxAdmins distinct entries, among them one written with upper-case      *)
(* letters and the mailbox's own address.  Failure-free cycles.            *)

MaxAdmins == 2

HBoss == [name |-> "Boss", email |-> "Boss@He5.in"]

AdminEntries == {"support-ticketana@he5.in", "Boss@He5.in", "desk@he5.in"}

ConfiguredAdminLists ==
    {l \in BoundedSeq(AdminEntries, MaxAdmins) :
        \A i, j \in 1..Len(l) : l[i] = l[j] => i = j}

InitAdmin ==
    /\ mailbox = [t \in Threads |-> <<>>]
    /\ labels = [t \in Threads |-> {}]
    /\ trashed = {}
    /\ rows = <<>>
    /\ counterCell = 0
    /\ sheetThreadState = EmptyMap
    /\ sheetLastSync = 0
    /\ fileState = EmptyMap
    /\ now = CLOCK_START
    /\ AUTO_CLOSE_ACTION = "close"
    /\ sync_counter = 0
    /\ cached_thread_map = NoCache
    /\ last_ticket_map_refresh = 0
    /\ known_senders = {}
    /\ known_senders_loaded = FALSE
    /\ ADMIN_EMAILS \in ConfiguredAdminLists
    /\ pc = "idle"
    /\ fetched = <<>>
    /\ threads = <<>>
    /\ idx = 1
    /\ thread_state = EmptyMap
    /\ issued = <<>>
    /\ appended = 0
    /\ sync_status = InitialStatus
    /\ wasted = 0
    /\ ticketed = {}
    /\ prevDone = EmptyMap
    /\ interrupted = EmptyMap
    /\ last_sync = 0
    /\ lastOp = "none"

NextAdmin ==
    \/ \E t \in Threads, from \in {HCarol, HBoss, HSelf}, date \in Dates :
          MessageArrives(t, from, date)
    \/ \E listing \in BoundedSeq(Threads, MaxList) : CycleStart(listing, "none")
    \/ SkipNoMessages
    \/ SkipProcessed
    \/ SkipAdminInitiated
    \/ UpdateExisting("none")
    \/ CreateTicket("none")
    \/ CycleEnd("none", 0, {})

SpecAdmin == InitAdmin /\ [][NextAdmin]_vars

\* Admin as the specification defines it, for a configured list: the
\* address matches an entry whatever the case of the letters, or is the
\* mailbox's own address
MatchesAdmin(address, configured) ==
    \/ \E i \in 1..Len(configured) : Lower(configured[i]) = Lower(address)
    \/ Lower(address) = get_my_email

(* C26: the loop treats the sender of a new thread's last message as an    *)
(* Admin (and skips the thread as admin-initiated) if and only if the       *)
(* address matches, whatever the case of the letters, an entry of the       *)
(* configured admin list or is the mailbox's own address.                   *)
C26_AdminIffConfigured ==
    [][ (Processing /\ HasMessages /\ ~AlreadyProcessed /\ IsNewTicket)
           => ( (lastOp' = "skip_admin") <=> MatchesAdmin(CurFrom, ADMIN_EMAILS) ) ]_vars


(* C27: when a step has appended the row of a new ticket and the loop goes *)
(* on, the cached map is the one read from the table as it is after the    *)
(* append: it maps the new thread to the appended row, so the thread is on *)
(* the update path for the rest of the batch.                              *)
C27_MapRereadAfterAppend ==
    [][ (Processing /\ Len(rows') = Len(rows) + 1 /\ pc' = "loop")
           => /\ cached_thread_map' = [isNone |-> FALSE, map |-> get_all_tickets(rows')]
              /\ CurThread \in DOMAIN cached_thread_map'.map
              /\ cached_thread_map'.map[CurThread] = Len(rows') + 1
              /\ idx' = idx + 1 ]_vars

\* a ticket was appended for the first thread of a batch of two, and the
\* loop stands at the second thread with the first one in the map
C27_Witness ==
    /\ pc = "loop"
    /\ lastOp = "create"
    /\ Len(threads) = 2
    /\ idx = 2
    /\ mailbox[threads[2]] # <<>>
    /\ threads[1] \in DOMAIN cached_thread_map.map
    /\ RowsOf(rows, threads[1]) # {}


\* how often x occurs in the list
CountIn(list, x) == Cardinality({i \in 1..Len(list) : list[i] = x})

(* C28: a step either leaves the admin list as it is or appends the        *)
(* mailbox's own address to a list that does not hold it, so the configured *)
(* entries stay as they are, in their order; and once a cycle has passed    *)
(* the start, the list holds the mailbox's own address exactly once.        *)
C28_MyEmailOnce ==
    [][ /\ \/ ADMIN_EMAILS' = ADMIN_EMAILS
           \/ /\ ~InList(get_my_email, ADMIN_EMAILS)
              /\ ADMIN_EMAILS' = Append(ADMIN_EMAILS, get_my_email)
        /\ sync_counter' > 0 => CountIn(ADMIN_EMAILS', get_my_email) = 1 ]_vars

\* two cycles have run on a configured list without the mailbox's address
C28_Witness ==
    /\ sync_counter = 2
    /\ pc = "idle"
    /\ lastOp = "end"
    /\ ADMIN_EMAILS = <<"Boss@He5.in", "support-ticketana@he5.in", "desk@he5.in">>


(* C29: whenever a step overwrites a row as the existing ticket of the     *)
(* thread it examines, the row number it takes from the cached map is that *)
(* of a row of the table that holds the thread's thread_id.                *)
C29_MapAccurateAtUse ==
    [][ (Processing /\ lastOp' = "update")
           => LET row_num == cached_thread_map.map[CurThread]
              IN /\ row_num - 1 \in 1..Len(rows)
                 /\ rows[row_num - 1].thread_id = CurThread ]_vars


-----------------------------------------------------------------------------
(* Cycles over a mailbox that is queried as main.py:278-281 queries it:    *)
(* a message is stamped with the time of its arrival and a cycle lists     *)
(* the threads that have a message not older than the cursor.  The process *)
(* has run BackupWindowStart cycles; the calls may raise in its next       *)
(* cycle and succeed from then on; messages arrive while at least two      *)
(* cycles are still to run; the scheduler keeps running cycles.            *)

MaxLiveMsgs == 2

InitLive ==
    /\ mailbox = [t \in Threads |-> <<>>]
    /\ labels = [t \in Threads |-> {}]
    /\ trashed = {}
    /\ rows = <<>>
    /\ counterCell = 0
    /\ sheetThreadState = EmptyMap
    /\ sheetLastSync = 0
    /\ fileState = EmptyMap
    /\ now = CLOCK_START
    /\ AUTO_CLOSE_ACTION = "close"
    /\ sync_counter = BackupWindowStart
    /\ cached_thread_map = [isNone |-> FALSE, map |-> EmptyMap]
    /\ last_ticket_map_refresh =
          BackupWindowStart - ((BackupWindowStart - 1) % TICKET_MAP_REFRESH_INTERVAL)
    /\ known_senders = {}
    /\ known_senders_loaded = TRUE
    /\ ADMIN_EMAILS = WithMyEmail(InitialAdminEmails)
    /\ pc = "idle"
    /\ fetched = <<>>
    /\ threads = <<>>
    /\ idx = 1
    /\ thread_state = EmptyMap
    /\ last_sync = now - LOOKBACK_SECONDS
    /\ issued = <<>>
    /\ appended = 0
    /\ sync_status = InitialStatus
    /\ wasted = 0
    /\ ticketed = {}
    /\ prevDone = EmptyMap
    /\ interrupted = EmptyMap
    /\ lastOp = "none"

\* a message is delivered, between two cycles, with the time of delivery as
\* its internalDate
LiveArrives(t, from) ==
    /\ pc = "idle"
    /\ sync_counter <= BackupWindowStart + 1
    /\ SumLen(mailbox, Threads) < MaxLiveMsgs
    /\ \A u \in Threads : u < t => mailbox[u] # <<>>
    /\ mailbox' = [mailbox EXCEPT ![t] = Append(@, Message(now * MS_PER_SECOND, from))]
    /\ lastOp' = "none"
    /\ interrupted' = EmptyMap
    /\ UNCHANGED <<labels, trashed, storeVars, fileState, now, AUTO_CLOSE_ACTION, sync_status,
                   globVars, cycleVars, issued, appended, wasted, ticketed, prevDone, last_sync>>

\* gmail_handler.fetch_all_threads for the query of main.py:278: the
\* threads with a message at or after the lower bound
Matching(mb, lower) ==
    {t \in Threads : \E i \in 1..Len(mb[t]) : TsOf(mb[t][i]) >= lower}

\* main.py:267-281: the cycle lists what its query matches
LiveCycleStart ==
    \E listing \in BoundedSeq(Threads, NThreads) :
       /\ \A i, j \in 1..Len(listing) : listing[i] = listing[j] => i = j
       /\ {listing[i] : i \in 1..Len(listing)} =
             Matching(mailbox,
                      QueryLowerBound(IF sync_counter + 1 = 1
                                      THEN get_last_sync_timestamp(sheetLastSync)
                                      ELSE now - LOOKBACK_SECONDS, now))
       /\ CycleStart(listing, "none")

\* a call raises in the first cycle
LiveFetchFails == sync_counter = BackupWindowStart + 1 /\ FetchFails

LiveCreateFails(fail) == sync_counter = BackupWindowStart + 1 /\ CreateTicket(fail)

\* the steps of a cycle whose calls return
LiveRuns ==
    \/ LiveCycleStart
    \/ SkipProcessed
    \/ SkipAdminInitiated
    \/ UpdateExisting("none")
    \/ RecheckSkip
    \/ CreateTicket("none")
    \/ CycleEnd("none", 0, {})

NextLive ==
    \/ Tick
    \/ \E t \in Threads, from \in {HCarol, HSelf} : LiveArrives(t, from)
    \/ LiveFetchFails
    \/ \E fail \in CreateFailures \ {"none"} : LiveCreateFails(fail)
    \/ LiveRuns

\* app.py:30: the scheduler starts a cycle every 5 seconds for as long as
\* the process lives, and a cycle whose calls return runs to its end
SpecLive == InitLive /\ [][NextLive]_vars /\ WF_vars(LiveRuns)

\* the last message of thread t is reflected: the saved watermark has
\* reached it, or a row of the thread was written at or after its arrival
Reflected(t) ==
    \/ Get(fileState, t, 0) >= TsOf(LastMsg(mailbox[t]))
    \/ \E i \in RowsOf(rows, t) : rows[i].timestamp >= TsOf(LastMsg(mailbox[t]))

Pending(t) == mailbox[t] # <<>> /\ ~Reflected(t)

-----------------------------------------------------------------------------
(* new1.py with its query: the listing of a cycle holds the threads that   *)
(* "after:<last_sync>" (or "newer_than:7d") matches, possibly more than    *)
(* once, and mail also arrives while a cycle is running.                   *)

\* messages received from outside, acknowledgements apart
MaxReceived == 2

RECURSIVE Received(_, _)
Received(mb, S) ==
    IF S = {} THEN 0
    ELSE LET t == CHOOSE x \in S : TRUE
         IN Cardinality({i \in 1..Len(mb[t]) : ~IsAck(mb[t][i])}) + Received(mb, S \ {t})

\* a second passes and a message arrives, between cycles or during one
New1Arrives(t, from) ==
    /\ Received(mailbox, Threads) < MaxReceived
    /\ \A u \in Threads : u < t => mailbox[u] # <<>>
    /\ now' = now + 1
    /\ mailbox' = [mailbox EXCEPT ![t] = Append(@, Message(now' * MS_PER_SECOND, from))]
    /\ lastOp' = "none"
    /\ UNCHANGED <<labels, trashed, storeVars, fileState, AUTO_CLOSE_ACTION, sync_status,
                   globVars, cycleVars, issued, appended, wasted, ticketed, prevDone,
                   last_sync, interrupted>>

\* new1.py:238-242, fetch_all_threads at new1.py:87-98: the threads with a
\* message after the lower bound; atBound is whether a message stamped with
\* the second of the bound itself is matched
New1Matching(mb, lower, atBound) ==
    {t \in Threads : \E i \in 1..Len(mb[t]) :
        \/ TsOf(mb[t][i]) > lower
        \/ atBound /\ TsOf(mb[t][i]) = lower}

\* new1.py:221-245 with the listing of the query; the pages of the listing
\* may name a thread twice
New1QueryCycleStart(listing, atBound) ==
    /\ {listing[i] : i \in 1..Len(listing)} =
          New1Matching(mailbox, QueryLowerBound(sheetLastSync, now), atBound)
    /\ New1CycleStart(listing, FALSE)

NextNew1Query ==
    \/ \E t \in Threads, from \in {HCarol, HSelf} : New1Arrives(t, from)
    \/ \E listing \in BoundedSeq(Threads, MaxList), atBound \in BOOLEAN :
          New1QueryCycleStart(listing, atBound)
    \/ New1FetchFails
    \/ SkipProcessed
    \/ New1SkipOwn
    \/ New1Update("none")
    \/ \E sent \in BOOLEAN : New1Create("none", sent)
    \/ New1CycleEnd

SpecNew1Query == Init /\ [][NextNew1Query]_vars

(* C31: in new1.py the ticket table never holds two rows with the same    *)
(* thread_id, also when a listing names a thread twice and a newer         *)
(* external message arrives on the thread between the two fetches.         *)
C31_New1OneRowPerThread ==
    \A t \in Threads : Cardinality(RowsOf(rows, t)) <= 1


(* C32: in new1.py a cycle changes a ticket's status from "Awaiting admin *)
(* reply" to "Awaiting customer reply" only when the thread's last message *)
(* is a reply written by an admin, never when it is the system's own       *)
(* acknowledgement.                                                        *)
C32_AckKeepsStatus ==
    [][ \A i \in 1..Len(rows) :
           ( /\ rows[i].status = StAdmin
             /\ i <= Len(rows')
             /\ rows'[i].status = StCust )
           => ( /\ Processing
                /\ CurThread = rows[i].thread_id
                /\ CurFrom = get_my_email
                /\ ~IsAck(CurMsg) ) ]_vars


-----------------------------------------------------------------------------
(* Two Auto-Closer passes with action "close", one right after the other,  *)
(* on a populated ticket table.                                            *)

InitClosePasses ==
    \E n \in 1..MaxRows : \E kinds \in [1..n -> CloserKinds] :
       CloserState(n, kinds, "close", 1)

\* main.py:142-204 called on the sheet; a second call follows a first one
\* that returned.  failAt: the snapshot index whose update call raises
ClosePass(failAt) ==
    LET res == check_and_close_stale_tickets(rows, trashed, AUTO_CLOSE_ACTION, now,
                                             failAt, {})
    IN /\ lastOp \in {"start", "closer"}
       /\ rows' = res.rows
       /\ trashed' = res.trashed
       /\ lastOp' = IF res.failed THEN "closer_raised"
                    ELSE IF lastOp = "start" THEN "closer"
                    ELSE "closer_again"
       /\ UNCHANGED <<mailbox, labels, counterCell, sheetThreadState, sheetLastSync,
                      fileState, now, AUTO_CLOSE_ACTION, sync_status, globVars,
                      cycleVars, issued, appended, wasted, ticketed, prevDone,
                      interrupted, last_sync>>

NextClosePasses == \E failAt \in 0..MaxRows : ClosePass(failAt)

SpecClosePasses == InitClosePasses /\ [][NextClosePasses]_vars

(* C33: a pass of the Auto-Closer with action "close" removes no row and  *)
(* changes only the status: every other cell of every row, among them      *)
(* ticket_id, thread_id, timestamp, from_email, subject and the new-sender  *)
(* flag, is as it was; and a second pass run right after a first one        *)
(* changes nothing.                                                        *)
C33_CloseChangesOnlyStatus ==
    [][ /\ Len(rows') = Len(rows)
        /\ \A i \in 1..Len(rows) : rows'[i] = [rows[i] EXCEPT !.status = rows'[i].status]
        /\ lastOp' = "closer_again" => rows' = rows /\ trashed' = trashed ]_vars

-----------------------------------------------------------------------------
(* The earliest variant, email_sync.py: no tickets ids, no watermarks.     *)
(* Every cycle lists the recent messages, and writes one row of the        *)
(* "Email log" sheet for every thread among them: thread id, date, sender, *)
(* subject, status, link.  Column A of the "Admin emails" sheet, below its *)
(* header, is held in ADMIN_EMAILS; the map from thread id to sheet row    *)
(* that a cycle builds is held in cached_thread_map.                       *)

\* str.strip() on the entries that occur in the model
Strip(s) == IF s = " desk@he5.in " THEN "desk@he5.in" ELSE s

AdminSheetEntries == {"support-ticketana@he5.in", "Boss@He5.in", " desk@he5.in "}

\* the contents of the "Admin emails" sheet the model draws from
AdminSheets == BoundedSeq(AdminSheetEntries, 1)

\* Faulty variant of admin_emails: the entries are taken as they are written
admin_emailsVerbatim(sheet) == {sheet[i] : i \in 1..Len(sheet)}

\* email_sync.py:142-147: the set admin_emails a cycle loads
admin_emails(sheet) == {Strip(Lower(sheet[i])) : i \in 1..Len(sheet)}

\* email_sync.py:218, 230-233: status from the sender of the latest message
EmailSyncStatus(msg, admins) ==
    IF FromOf(msg) \in admins THEN StCust ELSE StAdmin

\* email_sync.py:216-236, 263-270: the row written for a thread.  The
\* messages of the model carry no Date header, so the date is datetime.now()
EmailLogRow(thread_id, msg, admins, clock) ==
    [thread_id  |-> thread_id,
     timestamp  |-> Get(msg.headers, "Date", clock),
     from_email |-> FromOf(msg),
     subject    |-> SubjectOf(msg),
     status     |-> EmailSyncStatus(msg, admins),
     link       |-> "=HYPERLINK(\"https://mail.google.com/mail/u/0/#inbox/"
                        \o ToString(thread_id) \o "\", \"Open Mail\")"]

\* email_sync.py:185, 201-203: the threads of the messages the loop has been through
processed_threads == {threads[i] : i \in 1..(idx - 1)}

\* what main.py has and email_sync.py has not
EmailSyncUnused == <<trashed, counterCell, sheetThreadState, sheetLastSync, fileState,
                     now, AUTO_CLOSE_ACTION, sync_status, sync_counter,
                     last_ticket_map_refresh, known_senders, known_senders_loaded,
                     issued, wasted, ticketed, last_sync>>

\* the "Admin emails" sheet is edited between two cycles
AdminSheetEdited(sheet) ==
    /\ pc = "idle"
    /\ sheet # ADMIN_EMAILS
    /\ ADMIN_EMAILS' = sheet
    /\ lastOp' = "none"
    /\ UNCHANGED <<mailbox, labels, rows, cached_thread_map, cycleVars, appended,
                   prevDone, interrupted>>
    /\ UNCHANGED EmailSyncUnused

\* email_sync.py:102-188.  listing: the thread ids of the listed messages,
\* in the order of the listing; fail is TRUE when one of the calls raises
EmailSyncCycleStart(listing, fail) ==
    /\ pc = "idle"
    /\ fail => listing = <<>>
    /\ \A i \in 1..Len(listing) : mailbox[listing[i]] # <<>>
    /\ IF fail
       THEN AbortCycle /\ UNCHANGED cached_thread_map
       ELSE /\ cached_thread_map' = [isNone |-> FALSE, map |-> get_all_tickets(rows)]
            /\ pc' = IF listing = <<>> THEN "idle" ELSE "loop"
            /\ fetched' = listing
            /\ threads' = listing
            /\ idx' = 1
            /\ lastOp' = IF listing = <<>> THEN "end" ELSE "start"
            /\ UNCHANGED <<thread_state, prevDone>>
    /\ interrupted' = EmptyMap
    /\ UNCHANGED <<mailbox, labels, rows, ADMIN_EMAILS, appended>>
    /\ UNCHANGED EmailSyncUnused

\* email_sync.py:192-196, 206-209: messages().get or threads().get raises
EmailSyncFetchFails ==
    /\ Processing
    /\ AbortCycle
    /\ interrupted' = EmptyMap
    /\ UNCHANGED <<mailbox, labels, rows, ADMIN_EMAILS, cached_thread_map, appended>>
    /\ UNCHANGED EmailSyncUnused

\* email_sync.py:201-202
EmailSyncSkipProcessed ==
    /\ Processing
    /\ CurThread \in processed_threads
    /\ NextThread("skip_processed")
    /\ UNCHANGED <<mailbox, labels, rows, ADMIN_EMAILS, cached_thread_map, thread_state,
                   appended>>
    /\ UNCHANGED EmailSyncUnused

\* email_sync.py:203-290.  labelled: threads().modify returned (its
\* exception is caught); fail: main_sheet.update or append_row raises
EmailSyncProcess(labelled, fail) ==
    LET row_data == EmailLogRow(CurThread, CurMsg, admin_emails(ADMIN_EMAILS), now)
        thread_map == cached_thread_map.map
    IN
    /\ Processing
    /\ CurThread \notin processed_threads
    /\ CurThread \notin DOMAIN thread_map => Len(rows) < MaxRows
    /\ labels' = IF labelled
                 THEN [labels EXCEPT ![CurThread] = LabelsAfter(@, row_data.status)]
                 ELSE labels
    /\ IF fail
       THEN /\ AbortCycle
            /\ interrupted' = EmptyMap
            /\ UNCHANGED <<rows, cached_thread_map, appended>>
       ELSE /\ IF CurThread \in DOMAIN thread_map
               THEN /\ rows' = WriteRow(rows, thread_map[CurThread], row_data)
                    /\ NextThread("update")
                    /\ UNCHANGED <<cached_thread_map, appended>>
               ELSE /\ rows' = Append(rows, row_data)
                    /\ cached_thread_map' =
                          [cached_thread_map EXCEPT
                              !.map = Put(thread_map, CurThread,
                                          Cardinality(DOMAIN thread_map) + 2)]
                    /\ appended' = appended + 1
                    /\ NextThread("create")
            /\ UNCHANGED thread_state
    /\ UNCHANGED <<mailbox, ADMIN_EMAILS>>
    /\ UNCHANGED EmailSyncUnused

\* email_sync.py:292: the loop is over
EmailSyncCycleEnd ==
    /\ pc = "loop"
    /\ idx > Len(threads)
    /\ pc' = "idle"
    /\ fetched' = <<>>
    /\ threads' = <<>>
    /\ idx' = 1
    /\ lastOp' = "end"
    /\ interrupted' = EmptyMap
    /\ UNCHANGED <<mailbox, labels, rows, ADMIN_EMAILS, cached_thread_map, thread_state,
                   prevDone, appended>>
    /\ UNCHANGED EmailSyncUnused

NextEmailSync ==
    \/ \E t \in Threads, from \in {HCarol, HBoss, HSelf}, date \in Dates :
          MessageArrives(t, from, date)
    \/ \E sheet \in AdminSheets : AdminSheetEdited(sheet)
    \/ \E listing \in BoundedSeq(Threads, MaxList), fail \in BOOLEAN :
          EmailSyncCycleStart(listing, fail)
    \/ EmailSyncFetchFails
    \/ EmailSyncSkipProcessed
    \/ \E labelled \in BOOLEAN, fail \in BOOLEAN : EmailSyncProcess(labelled, fail)
    \/ EmailSyncCycleEnd

SpecEmailSync == Init /\ [][NextEmailSync]_vars

\* the address is that of an entry of the "Admin emails" sheet, whatever
\* the case of its letters and the blanks around the entry
InAdminSheet(address, sheet) ==
    \E i \in 1..Len(sheet) : Lower(Strip(sheet[i])) = Lower(address)

(* C34: in email_sync.py, the thread map being rebuilt from the sheet at  *)
(* the start of every cycle and the listed threads being de-duplicated     *)
(* through processed_threads, the "Email log" sheet never holds two rows    *)
(* with the same thread id, and the row a cycle writes for a thread has     *)
(* status "Awaiting customer reply" if and only if the sender of the        *)
(* thread's latest message is in the admin sheet.                          *)
C34_EmailLogOneRowPerThread ==
    [][ /\ \A i, j \in 1..Len(rows') :
              rows'[i].thread_id = rows'[j].thread_id => i = j
        /\ (Processing /\ lastOp' \in {"update", "create"})
              => /\ Cardinality(RowsOf(rows', CurThread)) = 1
                 /\ \A i \in RowsOf(rows', CurThread) :
                       /\ rows'[i].status \in {StCust, StAdmin}
                       /\ rows'[i].status = StCust
                             <=> InAdminSheet(CurMsg.headers["From"].email, ADMIN_EMAILS)
                 /\ \A i \in 1..Len(rows) :
                       rows[i].thread_id # CurThread => rows'[i] = rows[i] ]_vars

\* a cycle over two messages of thread 1, whose latest message is from
\* Boss@He5.in, an address of the admin sheet: the row of the thread was
\* written once and the second message skipped
C34_Witness ==
    /\ pc = "loop"
    /\ lastOp = "skip_processed"
    /\ threads = <<1, 1>>
    /\ idx = 3
    /\ Len(rows) = 2
    /\ rows[2].thread_id = 1
    /\ rows[2].from_email = "boss@he5.in"
    /\ rows[2].status = StCust
    /\ ADMIN_EMAILS = <<"Boss@He5.in">>

====
